---- MODULE Spec2Model ----
(***************************************************************************)
(* Model of the farm-mapping screen (src/src/screens/HomeScreen.tsx) and   *)
(* of the geometry / annotation / heatmap functions it calls               *)
(* (src/src/utils/mapUtils.ts).                                            *)
(*                                                                         *)
(* Coordinates are longitude/latitude doubles in the source.  The model    *)
(* uses integer coordinates; every comparison the code makes on them is    *)
(* carried out exactly (cross-multiplied instead of divided), which is     *)
(* what IEEE doubles give on such small integers.                          *)
(***************************************************************************)
EXTENDS Integers, Sequences, FiniteSets, TLC

VARIABLES
    appState,            \* HomeScreen.tsx:65
    isEditMode,          \* HomeScreen.tsx:66
    drawingMode,         \* HomeScreen.tsx:67
    selectedPolygonId,   \* HomeScreen.tsx:68
    selectedFarmId,      \* HomeScreen.tsx:69
    currentPolygon,      \* HomeScreen.tsx:70   sequence of drawn coordinates
    completedPolygons,   \* HomeScreen.tsx:71   sequence of features
    showPaddockModal,    \* HomeScreen.tsx:77
    paddockInfo,         \* HomeScreen.tsx:78   the n of the default name `Paddock n`
    bottomMenuMode,      \* HomeScreen.tsx:86
    livestockData,       \* HomeScreen.tsx:89
    livestockAnnotations,\* HomeScreen.tsx:90
    heatmapData,         \* HomeScreen.tsx:93
    storage,             \* the MMKV store of storage.ts:5
    dirty,               \* state whose change has been committed and whose effects have yet to run
    alert,               \* title of the last Alert.alert dialog
    clock,               \* Date.now(), advanced once per feature created
    call,                \* the mapUtils call under examination (function + arguments)
    ret                  \* what that call returned

screenVars == <<appState, isEditMode, drawingMode, selectedPolygonId, selectedFarmId,
                currentPolygon, completedPolygons, showPaddockModal, paddockInfo,
                bottomMenuMode, livestockData, livestockAnnotations, heatmapData,
                storage, dirty, alert, clock>>

vars == <<screenVars, call, ret>>

(***************************************************************************)
(* Bounds                                                                  *)
(***************************************************************************)
MaxCoord == 3          \* query points and generic rings live on 0..MaxCoord squared
MaxDegenerate == 2     \* longest generic ring enumerated point by point
MaxPaddockLen == 2     \* longest generic paddock ring handed to isPaddockWithinFarm

Coords == 0 .. MaxCoord
Points == Coords \X Coords

NoId == <<>>           \* null / undefined identifier

SeqsUpTo(S, n) == UNION { [1..k -> S] : k \in 0..n }

(***************************************************************************)
(* Geometry kernel                                                         *)
(***************************************************************************)

\* the condition of mapUtils.ts:12 for the edge polygon[i] -> polygon[j]:
\*   ((yi > y) !== (yj > y)) && (x < (xj - xi) * (y - yi) / (yj - yi) + xi)
\* yj # yi whenever the first conjunct holds, so the quotient is defined; the
\* comparison is done after multiplying by (yj - yi), minding its sign.
EdgeCrossed(point, pi, pj) ==
    LET x == point[1]   y == point[2]
        xi == pi[1]     yi == pi[2]
        xj == pj[1]     yj == pj[2]
        d == yj - yi
        a == (xj - xi) * (y - yi)
    IN  /\ (yi > y) # (yj > y)
        /\ IF d > 0 THEN (x - xi) * d < a ELSE (x - xi) * d > a

RECURSIVE RayCast(_, _, _, _, _)
\* seeded fault: j is never advanced (the `j = i++` of the loop header lost)
RayCastFixedTail(point, polygon, i, j, inside) ==
    IF i > Len(polygon) THEN inside
    ELSE RayCast(point, polygon, i + 1, j,
                 IF EdgeCrossed(point, polygon[i], polygon[j]) THEN ~inside ELSE inside)

\* the loop of mapUtils.ts:8-15: i runs over the ring, j is the previous i
\* (the last index on the first iteration)
RayCast(point, polygon, i, j, inside) ==
    IF i > Len(polygon) THEN inside
    ELSE RayCast(point, polygon, i + 1, i,
                 IF EdgeCrossed(point, polygon[i], polygon[j]) THEN ~inside ELSE inside)

\* seeded fault: the edge from the last vertex back to the first is left out
isPointInPolygonOpen(point, polygon) ==
    IF Len(polygon) = 0 THEN FALSE ELSE RayCast(point, polygon, 2, 1, FALSE)

isPointInPolygon(point, polygon) ==
    RayCast(point, polygon, 1, Len(polygon), FALSE)

RECURSIVE PaddockLoop(_, _, _)
\* the for-of loop of mapUtils.ts:23-28
PaddockLoop(paddockCoords, farmCoords, k) ==
    IF k > Len(paddockCoords) THEN TRUE
    ELSE IF ~isPointInPolygon(paddockCoords[k], farmCoords) THEN FALSE
    ELSE PaddockLoop(paddockCoords, farmCoords, k + 1)

\* seeded fault: only the first vertex is tested
isPaddockWithinFarmFirst(paddockCoords, farmCoords) ==
    Len(paddockCoords) = 0 \/ isPointInPolygon(paddockCoords[1], farmCoords)

\* a stricter test than the code's: the middle of every edge is tested too
\* (points and ring doubled, so that the middles are integers)
isPaddockWithinFarmEdges(paddockCoords, farmCoords) ==
    LET twice == [k \in 1..Len(farmCoords) |-> <<2 * farmCoords[k][1], 2 * farmCoords[k][2]>>]
    IN  /\ PaddockLoop(paddockCoords, farmCoords, 1)
        /\ \A k \in 1..Len(paddockCoords) :
              LET p == paddockCoords[k]
                  q == paddockCoords[(k % Len(paddockCoords)) + 1]
              IN  isPointInPolygon(<<p[1] + q[1], p[2] + q[2]>>, twice)

isPaddockWithinFarm(paddockCoords, farmCoords) ==
    PaddockLoop(paddockCoords, farmCoords, 1)

\* seeded fault: a ring that is closed already is returned as it is
createClosedPolygonOnce(coordinates) ==
    IF Len(coordinates) > 1 /\ coordinates[Len(coordinates)] = coordinates[1]
    THEN coordinates
    ELSE Append(coordinates, coordinates[1])

createClosedPolygon(coordinates) ==
    Append(coordinates, coordinates[1])

(***************************************************************************)
(* Features, collections and the filters over them                         *)
(*                                                                         *)
(* A feature keeps the properties the functions read: id, type, parentId   *)
(* and the single ring geometry.coordinates[0].  Identifiers are pairs     *)
(* <<prefix, number>> standing for the strings `farm_<ms>`, `paddock_<ms>`.*)
(***************************************************************************)
EmptyString == <<"">>  \* the '' of `selectedFarmId || ''`, equal to no identifier

Feature(id, type, parentId, ring) ==
    [id |-> id, type |-> type, parentId |-> parentId, ring |-> ring]

IsFarm(f) == f.type = "farm"
IsPaddock(f) == f.type = "paddock"

\* seeded fault: the filter on the type is lost
getFarmBoundariesUnfiltered(polygons) == polygons

\* seeded fault: the farms come out in reverse collection order
getFarmBoundariesReversed(polygons) ==
    LET farms == SelectSeq(polygons, IsFarm)
    IN  [k \in 1..Len(farms) |-> farms[Len(farms) + 1 - k]]

getFarmBoundaries(polygons) == SelectSeq(polygons, IsFarm)

PaddockFeatures(polygons) == SelectSeq(polygons, IsPaddock)

getPaddocksForFarm(polygons, farmId) ==
    SelectSeq(polygons, LAMBDA f : f.type = "paddock" /\ f.parentId = farmId)

\* Array.prototype.find on the id: the first feature with that id, if any
HasFeature(polygons, id) == \E k \in 1..Len(polygons) : polygons[k].id = id
FindFeature(polygons, id) ==
    polygons[CHOOSE k \in 1..Len(polygons) :
                /\ polygons[k].id = id
                /\ \A h \in 1..(k - 1) : polygons[h].id # id]

getPolygonVertices(polygons, polygonId) ==
    IF HasFeature(polygons, polygonId)
    THEN LET coords == FindFeature(polygons, polygonId).ring
         IN  SubSeq(coords, 1, Len(coords) - 1)
    ELSE <<>>

(***************************************************************************)
(* Initials of a name.  A string is the sequence of its characters; the    *)
(* string of no characters is <<>>.                                        *)
(***************************************************************************)
\* characters matched by \s, among those that names are made of here
WhiteSpace == { " ", "\t" }

LowerCase == <<"a", "b", "c", "d", "e", "f", "g", "h", "i", "j", "k", "l", "m",
               "n", "o", "p", "q", "r", "s", "t", "u", "v", "w", "x", "y", "z",
               "e-acute">>
UpperCase == <<"A", "B", "C", "D", "E", "F", "G", "H", "I", "J", "K", "L", "M",
               "N", "O", "P", "Q", "R", "S", "T", "U", "V", "W", "X", "Y", "Z",
               "E-acute">>

\* String.prototype.toUpperCase on a string of at most one character
toUpperCase(c) ==
    IF \E k \in 1..Len(LowerCase) : LowerCase[k] = c
    THEN UpperCase[CHOOSE k \in 1..Len(LowerCase) : LowerCase[k] = c]
    ELSE c

\* letter.match(/[A-Z]/) on a string of at most one character
MatchesAZ(c) == \E k \in 1..26 : UpperCase[k] = c

RECURSIVE trimStart(_)
trimStart(text) ==
    IF text # <<>> /\ Head(text) \in WhiteSpace THEN trimStart(Tail(text)) ELSE text

RECURSIVE trimEnd(_)
trimEnd(text) ==
    IF text # <<>> /\ text[Len(text)] \in WhiteSpace
    THEN trimEnd(SubSeq(text, 1, Len(text) - 1)) ELSE text

trim(text) == trimEnd(trimStart(text))

RECURSIVE SplitLoop(_, _, _, _)
\* text.split(/\s+/): the pieces between the runs of white space
SplitLoop(text, k, piece, pieces) ==
    IF k > Len(text) THEN Append(pieces, piece)
    ELSE IF text[k] \in WhiteSpace
         THEN IF k > 1 /\ text[k - 1] \in WhiteSpace
              THEN SplitLoop(text, k + 1, piece, pieces)
              ELSE SplitLoop(text, k + 1, <<>>, Append(pieces, piece))
         ELSE SplitLoop(text, k + 1, Append(piece, text[k]), pieces)

split(text) == SplitLoop(text, 1, <<>>, <<>>)

\* word.charAt(0): the empty string for an empty word
charAt0(word) == IF word = <<>> THEN <<>> ELSE <<word[1]>>

\* .map(word => word.charAt(0).toUpperCase()).filter(letter => letter.match(/[A-Z]/))
KeepsLetter(piece) ==
    charAt0(piece) # <<>> /\ MatchesAZ(toUpperCase(charAt0(piece)[1]))

RECURSIVE join(_)
\* letters.join(' ')
join(letters) ==
    IF letters = <<>> THEN <<>>
    ELSE IF Len(letters) = 1 THEN <<letters[1]>>
    ELSE <<letters[1], " ">> \o join(Tail(letters))

getNameInitials(name) ==
    IF name = <<>> \/ trim(name) = <<>> THEN <<>>
    ELSE LET kept == SelectSeq(split(trim(name)), KeepsLetter)
         IN  join([k \in 1..Len(kept) |-> toUpperCase(kept[k][1])])

(***************************************************************************)
(* Centroid.  A quotient of integers is kept as a fraction in lowest terms *)
(* <<numerator, denominator>> with a positive denominator.                 *)
(***************************************************************************)
Abs(x) == IF x < 0 THEN -x ELSE x

RECURSIVE GCD(_, _)
GCD(a, b) == IF b = 0 THEN a ELSE GCD(b, a % b)

Quotient(n, d) ==
    IF n = 0 THEN <<0, 1>>
    ELSE LET g == GCD(Abs(n), d) IN <<n \div g, d \div g>>

RECURSIVE SumCoord(_, _, _)
SumCoord(coordinates, axis, k) ==
    IF k > Len(coordinates) THEN 0
    ELSE coordinates[k][axis] + SumCoord(coordinates, axis, k + 1)

\* seeded fault: the closing vertex of a closed ring is not counted
getPolygonCentroidOpen(coordinates) ==
    LET n == IF Len(coordinates) > 1 /\ coordinates[Len(coordinates)] = coordinates[1]
             THEN Len(coordinates) - 1 ELSE Len(coordinates)
    IN  IF n = 0 THEN <<Quotient(0, 1), Quotient(0, 1)>>
        ELSE <<Quotient(SumCoord(SubSeq(coordinates, 1, n), 1, 1), n),
               Quotient(SumCoord(SubSeq(coordinates, 1, n), 2, 1), n)>>

\* every coordinate of the model has two entries, so `count` is the length
getPolygonCentroid(coordinates) ==
    IF Len(coordinates) = 0 THEN <<Quotient(0, 1), Quotient(0, 1)>>
    ELSE <<Quotient(SumCoord(coordinates, 1, 1), Len(coordinates)),
           Quotient(SumCoord(coordinates, 2, 1), Len(coordinates))>>

(***************************************************************************)
(* The random source.  Math.random() returns a double in [0,1); the model  *)
(* returns r / RandDen for a numerator r in 0 .. RandDen-1.                *)
(***************************************************************************)
RandDen == 1200
RandomOutcomes == 0 .. (RandDen - 1)

\* Math.floor(Math.random() * n)
RandomFloor(r, n) == (r * n) \div RandDen

\* Math.round(Math.random() * n): round half up
RandomRound(r, n) == (2 * r * n + RandDen) \div (2 * RandDen)

(***************************************************************************)
(* Annotation layer                                                        *)
(***************************************************************************)
livestockTypes == <<"cattle", "sheep">>
livestockStatuses == <<"healthy", "attention", "breeding", "medication">>

\* mapUtils.ts:138
randomCount(r) == RandomFloor(r, 600) + 20

\* seeded fault: a record is made for every feature, farms included
generateMockLivestockDataUnfiltered(polygons, draws) ==
    [k \in 1..Len(polygons) |->
        [paddockId |-> polygons[k].id,
         count     |-> randomCount(IF draws = <<>> THEN 0 ELSE draws[1]),
         type      |-> livestockTypes[1],
         status    |-> livestockStatuses[1]]]

\* draws is the sequence of outcomes of the successive Math.random() calls:
\* three per paddock, in the order count, type, status.  lastUpdated (the
\* wall-clock time of the call) is not kept.
generateMockLivestockData(polygons, draws) ==
    LET paddocks == PaddockFeatures(polygons)
    IN  [k \in 1..Len(paddocks) |->
            [paddockId |-> paddocks[k].id,
             count     |-> randomCount(draws[3 * k - 2]),
             type      |-> livestockTypes[RandomFloor(draws[3 * k - 1], Len(livestockTypes)) + 1],
             status    |-> livestockStatuses[RandomFloor(draws[3 * k], Len(livestockStatuses)) + 1]]]

\* new Map(livestockData.map(data => [data.paddockId, data])): of two entries
\* with the same key the later one stays
MapHas(records, paddockId) ==
    \E k \in 1..Len(records) : records[k].paddockId = paddockId

\* seeded fault: of two entries with the same key the earlier one stays
MapGetFirst(records, paddockId) ==
    records[CHOOSE k \in 1..Len(records) :
                     /\ records[k].paddockId = paddockId
                     /\ \A h \in 1..(k - 1) : records[h].paddockId # paddockId]

MapGet(records, paddockId) ==
    records[CHOOSE k \in 1..Len(records) :
                     /\ records[k].paddockId = paddockId
                     /\ \A h \in (k + 1)..Len(records) : records[h].paddockId # paddockId]

createLivestockAnnotations(polygons, records) ==
    LET paddocks == PaddockFeatures(polygons)
    IN  [k \in 1..Len(paddocks) |->
            LET paddockId == paddocks[k].id
                centroid == getPolygonCentroid(paddocks[k].ring)
            IN  IF MapHas(records, paddockId)
                THEN [id |-> <<"livestock", paddockId>>,
                      paddockId |-> paddockId,
                      coordinates |-> centroid,
                      count |-> MapGet(records, paddockId).count,
                      type |-> MapGet(records, paddockId).type,
                      status |-> MapGet(records, paddockId).status]
                ELSE [id |-> <<"livestock", paddockId>>,
                      paddockId |-> paddockId,
                      coordinates |-> centroid,
                      count |-> 0,
                      type |-> "cattle",
                      status |-> "healthy"]]

(***************************************************************************)
(* Heatmap generator                                                       *)
(*                                                                         *)
(* One unit of the model's integer coordinates is one degree.  The grid    *)
(* samples minLon + i * (maxLon - minLon) / gridSize are kept multiplied   *)
(* by gridSize, and rings are multiplied by gridSize before they are       *)
(* tested against a sample (the ray-casting condition is unchanged when    *)
(* point and ring are scaled alike).  Densities are kept multiplied by     *)
(* 10^4.                                                                   *)
(*                                                                         *)
(* Math.exp(-distance * 500000) and Math.exp(-distance * 800000): a sample *)
(* and a centroid of a ring of at most 26 entries are either equal or at   *)
(* least 1/650 of a degree apart, and exp(-500000/650) underflows to 0 in  *)
(* doubles, so the exponentials are 1 at the centroid and 0 elsewhere.     *)
(***************************************************************************)
gridSize == 25

\* 10^4 * sin(0.3 * m) for m = 0..75 and 10^4 * cos(0.4 * m) for m = 0..25
SinTable ==
    <<0, 2955, 5646, 7833, 9320, 9975, 9738, 8632, 6755, 4274,
      1411, -1577, -4425, -6878, -8716, -9775, -9962, -9258, -7728, -5507,
      -2794, 168, 3115, 5784, 7937, 9380, 9985, 9699, 8546, 6630,
      4121, 1245, -1743, -4575, -6999, -8797, -9809, -9946, -9193, -7620,
      -5366, -2632, 336, 3275, 5921, 8038, 9437, 9993, 9657, 8457,
      6503, 3967, 1078, -1909, -4724, -7118, -8876, -9841, -9927, -9126,
      -7510, -5223, -2470, 504, 3433, 6055, 8137, 9491, 9998, 9612,
      8367, 6374, 3813, 910, -2073, -4872>>
CosTable ==
    <<10000, 9211, 6967, 3624, -292, -4161, -7374, -9422, -9983, -8968,
      -6536, -3073, 875, 4685, 7756, 9602, 9932, 8694, 6084, 2513,
      -1455, -5193, -8111, -9748, -9847, -8391>>

Min2(a, b) == IF a < b THEN a ELSE b
Max2(a, b) == IF a > b THEN a ELSE b

\* 30 * Math.sin(i * 0.3) * Math.cos(j * 0.4)
variation(i, j) == (3 * SinTable[i + 1] * CosTable[j + 1]) \div 1000

\* 15 * Math.sin(i * 0.6 + j * 0.3) * Math.cos(i * 0.4)
grazingPattern(i, j) == (3 * SinTable[2 * i + j + 1] * CosTable[i + 1]) \div 2000

\* Math.min(100, livestock.count / 10)
paddockDensity(count) == Min2(1000000, count * 1000)

ScaleRing(ring) == [k \in 1..Len(ring) |-> <<gridSize * ring[k][1], gridSize * ring[k][2]>>]

\* distance === 0 between a sample (times gridSize) and a centroid (fractions)
AtCentroid(sample, centroid) ==
    /\ sample[1] * centroid[1][2] = gridSize * centroid[1][1]
    /\ sample[2] * centroid[2][2] = gridSize * centroid[2][1]

\* the m-th Math.random() call of a run; the enumerated sources are periodic
Tape(noise, m) == noise[((m - 1) % Len(noise)) + 1]

\* what the loop of mapUtils.ts:233-273 reads of one paddock; it does not
\* depend on the sample, so it is computed once per paddock and not once per
\* sample: the ring (times gridSize), the centroid, and the count of the
\* paddock's record when `livestock && livestock.count > 0`, else 0
PaddockView(paddock, records) ==
    [ring |-> ScaleRing(paddock.ring),
     centroid |-> getPolygonCentroid(paddock.ring),
     count |-> IF MapHas(records, paddock.id)
               THEN Max2(0, MapGet(records, paddock.id).count)
               ELSE 0]

RECURSIVE PaddockInfluenceNoBreak(_, _, _, _, _, _)
\* seeded fault: the loop goes on after a containing paddock
PaddockInfluenceNoBreak(i, j, sample, views, k, acc) ==
    IF k > Len(views) THEN acc
    ELSE IF views[k].count > 0
         THEN IF isPointInPolygon(sample, views[k].ring)
              THEN PaddockInfluenceNoBreak(i, j, sample, views, k + 1,
                       [livestockDensity |->
                            (paddockDensity(views[k].count)
                               * (IF AtCentroid(sample, views[k].centroid) THEN 10 ELSE 7)) \div 10
                            + variation(i, j),
                        totalInfluence |-> 1])
              ELSE IF AtCentroid(sample, views[k].centroid)
                   THEN PaddockInfluenceNoBreak(i, j, sample, views, k + 1,
                            [livestockDensity |-> acc.livestockDensity
                                 + (paddockDensity(views[k].count) * 3) \div 10,
                             totalInfluence |-> acc.totalInfluence + 1])
                   ELSE PaddockInfluenceNoBreak(i, j, sample, views, k + 1, acc)
         ELSE PaddockInfluenceNoBreak(i, j, sample, views, k + 1, acc)

RECURSIVE PaddockInfluence(_, _, _, _, _, _)
\* the loop over the paddocks of mapUtils.ts:233-273 for one sample;
\* acc holds livestockDensity and totalInfluence
PaddockInfluence(i, j, sample, views, k, acc) ==
    IF k > Len(views) THEN acc
    ELSE IF views[k].count > 0
         THEN IF isPointInPolygon(sample, views[k].ring)
              THEN \* inside this paddock: overwrite and break
                   [livestockDensity |->
                        (paddockDensity(views[k].count)
                           * (IF AtCentroid(sample, views[k].centroid) THEN 10 ELSE 7)) \div 10
                        + variation(i, j),
                    totalInfluence |-> 1]
              ELSE IF AtCentroid(sample, views[k].centroid)
                   THEN \* influence = 1 > 0.01
                        PaddockInfluence(i, j, sample, views, k + 1,
                            [livestockDensity |-> acc.livestockDensity
                                 + (paddockDensity(views[k].count) * 3) \div 10,
                             totalInfluence |-> acc.totalInfluence + 1])
                   ELSE PaddockInfluence(i, j, sample, views, k + 1, acc)
         ELSE PaddockInfluence(i, j, sample, views, k + 1, acc)

\* seeded fault: every value is the random background value
HeatmapValueAllRandom(i, j, acc, r) == RandomRound(r, 5)

\* seeded fault: the density is rounded without being clamped
HeatmapValueUnclamped(i, j, acc, r) ==
    IF acc.totalInfluence > 0
    THEN LET d == acc.livestockDensity \div acc.totalInfluence + grazingPattern(i, j)
         IN  (d + 5000) \div 10000
    ELSE RandomRound(r, 5)

\* mapUtils.ts:275-300: the value of an accepted sample; r is the outcome of
\* the Math.random() call made when there is no influence
HeatmapValue(i, j, acc, r) ==
    IF acc.totalInfluence > 0
    THEN LET d == acc.livestockDensity \div acc.totalInfluence + grazingPattern(i, j)
         IN  (Max2(0, Min2(1000000, d)) + 5000) \div 10000
    ELSE RandomRound(r, 5)

\* seeded fault: a sample is pushed whether or not the farm contains it
SampleStepUnchecked(box, farmScaled, views, noise, st) ==
    LET i == st.i
        j == st.j
        sample == <<gridSize * box.minLon + i * (box.maxLon - box.minLon),
                    gridSize * box.minLat + j * (box.maxLat - box.minLat)>>
        acc == PaddockInfluence(i, j, sample, views, 1,
                                [livestockDensity |-> 0, totalInfluence |-> 0])
    IN  [i |-> i,
         j |-> j + 1,
         calls |-> IF acc.totalInfluence > 0 THEN st.calls ELSE st.calls + 1,
         points |-> Append(st.points,
             [id |-> <<"heatmap", i, j>>,
              coordinates |-> <<Quotient(sample[1], gridSize),
                                Quotient(sample[2], gridSize)>>,
              value |-> HeatmapValue(i, j, acc, Tape(noise, st.calls + 1)),
              type |-> "livestock-density"])]

\* the body of the inner loop (mapUtils.ts:224-301).  The loop state st holds
\* the indices i and j, the points pushed so far and the number of
\* Math.random() calls made so far.
SampleStep(box, farmScaled, views, noise, st) ==
    LET i == st.i
        j == st.j
        sample == <<gridSize * box.minLon + i * (box.maxLon - box.minLon),
                    gridSize * box.minLat + j * (box.maxLat - box.minLat)>>
    IN  IF isPointInPolygon(sample, farmScaled)
        THEN LET acc == PaddockInfluence(i, j, sample, views, 1,
                                         [livestockDensity |-> 0, totalInfluence |-> 0])
             IN  [i |-> i,
                  j |-> j + 1,
                  calls |-> IF acc.totalInfluence > 0 THEN st.calls ELSE st.calls + 1,
                  points |-> Append(st.points,
                      [id |-> <<"heatmap", i, j>>,
                       coordinates |-> <<Quotient(sample[1], gridSize),
                                         Quotient(sample[2], gridSize)>>,
                       value |-> HeatmapValue(i, j, acc, Tape(noise, st.calls + 1)),
                       type |-> "livestock-density"])]
        ELSE [st EXCEPT !.j = j + 1]

RECURSIVE ColumnLoop(_, _, _, _, _)
\* for (let j = 0; j <= gridSize; j++)
ColumnLoop(box, farmScaled, views, noise, st) ==
    IF st.j > gridSize THEN st
    ELSE ColumnLoop(box, farmScaled, views, noise,
                    SampleStep(box, farmScaled, views, noise, st))

RECURSIVE RowLoop(_, _, _, _, _)
\* for (let i = 0; i <= gridSize; i++)
RowLoop(box, farmScaled, views, noise, st) ==
    IF st.i > gridSize THEN st
    ELSE RowLoop(box, farmScaled, views, noise,
                 [ColumnLoop(box, farmScaled, views, noise,
                             [st EXCEPT !.j = 0])
                     EXCEPT !.i = st.i + 1])

MinOf(S) == CHOOSE m \in S : \A e \in S : m <= e
MaxOf(S) == CHOOSE m \in S : \A e \in S : m >= e

\* noise: the outcomes of the Math.random() calls of the run, in call order.
\* For an empty farm ring Math.min() / Math.max() give +-Infinity, every
\* sample is NaN and the ray casting runs over no edge: nothing is pushed.
generateHeatmapData(polygons, records, noise) ==
    LET farmBoundaries == getFarmBoundaries(polygons)
        paddocks == PaddockFeatures(polygons)
    IN  IF Len(farmBoundaries) = 0 \/ Len(paddocks) = 0 THEN <<>>
        ELSE LET farmCoords == farmBoundaries[1].ring
                 lons == { farmCoords[k][1] : k \in 1..Len(farmCoords) }
                 lats == { farmCoords[k][2] : k \in 1..Len(farmCoords) }
             IN  IF Len(farmCoords) = 0 THEN <<>>
                 ELSE RowLoop([minLon |-> MinOf(lons), maxLon |-> MaxOf(lons),
                               minLat |-> MinOf(lats), maxLat |-> MaxOf(lats)],
                              ScaleRing(farmCoords),
                              [k \in 1..Len(paddocks) |-> PaddockView(paddocks[k], records)],
                              noise,
                              [i |-> 0, j |-> 0, calls |-> 0, points |-> <<>>]).points

\* mapUtils.ts:311-329; intensity = value / 100
createHeatmapGeoJSON(heatmapPoints) ==
    [k \in 1..Len(heatmapPoints) |->
        [id |-> heatmapPoints[k].id,
         value |-> heatmapPoints[k].value,
         type |-> heatmapPoints[k].type,
         intensity |-> Quotient(heatmapPoints[k].value, 100),
         coordinates |-> heatmapPoints[k].coordinates]]

(***************************************************************************)
(* Calls of the pure functions: arguments and results                      *)
(***************************************************************************)
NoCall == [fn |-> "none", point |-> <<0, 0>>, ring |-> <<>>, farm |-> <<>>,
           polygons |-> <<>>, livestockData |-> <<>>, noise |-> <<>>, name |-> <<>>,
           farmId |-> <<>>, heatmapData |-> <<>>]
NoRet  == [done |-> FALSE, bool |-> FALSE, seq |-> <<>>, again |-> FALSE]

PointCall(p, ring) == [NoCall EXCEPT !.fn = "isPointInPolygon", !.point = p, !.ring = ring]
PaddockCall(paddock, farm) ==
    [NoCall EXCEPT !.fn = "isPaddockWithinFarm", !.ring = paddock, !.farm = farm]

\* an axis-aligned rectangle as the four corners in drawing order, starting at
\* corner s (0..3), clockwise or counter-clockwise
RectCorner(x1, y1, x2, y2, k) ==
    CASE k = 0 -> <<x1, y1>>
      [] k = 1 -> <<x1, y2>>
      [] k = 2 -> <<x2, y2>>
      [] k = 3 -> <<x2, y1>>

OpenRect(x1, y1, x2, y2, s, cw) ==
    [k \in 1..4 |-> RectCorner(x1, y1, x2, y2,
                               IF cw THEN (s + k - 1) % 4 ELSE (s + 4 - (k - 1)) % 4)]

RectBoxes == { b \in Coords \X Coords \X Coords \X Coords : b[1] < b[3] /\ b[2] < b[4] }

OpenRects == { OpenRect(b[1], b[2], b[3], b[4], s, cw) :
                  b \in RectBoxes, s \in 0..3, cw \in BOOLEAN }

RectRings == OpenRects \cup { createClosedPolygon(r) : r \in OpenRects }

\* the square of the specification's example and its two query points
SpecSquare == <<<<0, 0>>, <<0, 10>>, <<10, 10>>, <<10, 0>>>>

\* a U-shaped (concave) farm and a paddock whose four corners sit in the two
\* arms and the base, so that its top edge spans the notch
ConcaveFarm == <<<<0, 0>>, <<6, 0>>, <<6, 6>>, <<4, 6>>, <<4, 2>>, <<2, 2>>, <<2, 6>>, <<0, 6>>, <<0, 0>>>>
BulgingPaddock == <<<<1, 5>>, <<5, 5>>, <<5, 1>>, <<1, 1>>>>

DegenerateRings == SeqsUpTo(Points, MaxDegenerate)

\* farms: the rectangles whose lower-left corner is (1,1), so that the grid
\* has points on every side of them
FarmBoxes == { b \in RectBoxes : b[1] = 1 /\ b[2] = 1 }

FarmRings == { createClosedPolygon(OpenRect(b[1], b[2], b[3], b[4], 0, TRUE)) : b \in FarmBoxes }
                \cup { ConcaveFarm, createClosedPolygon(SpecSquare) }

PaddockRings == SeqsUpTo(Points, MaxPaddockLen)
                  \cup { BulgingPaddock, createClosedPolygon(BulgingPaddock),
                         <<<<1, 1>>, <<1, 5>>, <<3, 5>>>>, <<<<5, 5>>, <<15, 5>>, <<5, 1>>>> }

ExamplePoints == { <<5, 5>>, <<15, 5>>, <<3, 5>> }
ExampleRings == { SpecSquare, createClosedPolygon(SpecSquare), ConcaveFarm }

(***************************************************************************)
(* Persistence (storage.ts).  The store maps the four keys to strings; a   *)
(* key that is not set reads as undefined.                                 *)
(***************************************************************************)
Undefined == "undefined"

\* JSON.stringify / JSON.parse of a collection: the text is kept as the
\* tagged value it encodes (coordinates are doubles and identifiers strings,
\* which JSON reproduces; parentId: undefined is dropped and reads back as
\* undefined)
JsonStringify(polygons) == <<"json", polygons>>
JsonParse(text) == text[2]

EmptyStorage ==
    [completedPolygons |-> Undefined, selectedFarmId |-> Undefined,
     appState |-> Undefined, bottomMenuMode |-> Undefined]

saveCompletedPolygons(store, polygons) ==
    [store EXCEPT !.completedPolygons = JsonStringify(polygons)]

saveSelectedFarmId(store, farmId) ==
    [store EXCEPT !.selectedFarmId = IF farmId # NoId THEN farmId ELSE Undefined]

saveAppState(store, state) == [store EXCEPT !.appState = state]

saveBottomMenuMode(store, mode) ==
    [store EXCEPT !.bottomMenuMode = IF mode # "null" THEN mode ELSE Undefined]

loadCompletedPolygons(store) ==
    IF store.completedPolygons # Undefined THEN JsonParse(store.completedPolygons) ELSE <<>>

loadSelectedFarmId(store) ==
    IF store.selectedFarmId # Undefined THEN store.selectedFarmId ELSE NoId

loadAppState(store) ==
    IF store.appState # Undefined THEN store.appState ELSE "initial"

loadBottomMenuMode(store) ==
    IF store.bottomMenuMode # Undefined THEN store.bottomMenuMode ELSE "null"

loadAllData(store) ==
    [completedPolygons |-> loadCompletedPolygons(store),
     selectedFarmId |-> loadSelectedFarmId(store),
     appState |-> loadAppState(store),
     bottomMenuMode |-> loadBottomMenuMode(store)]

\* seeded fault: the store is left as it is
clearAllDataKept(store) == store

\* storage.clearAll(), storage.ts:144-151
clearAllData(store) == EmptyStorage

(***************************************************************************)
(* The screen (HomeScreen.tsx)                                             *)
(***************************************************************************)
MaxDraw == 3           \* most points tapped into one polygon
MaxClock == 3          \* most features created
MaxDragIndex == 2      \* vertices of a completed polygon offered for dragging

\* where the user taps: while the farm is outlined, the corners of a
\* triangular field one after the other (then around again); afterwards a
\* spot inside the field and one outside
FarmCorners == << <<0, 0>>, <<10, 0>>, <<0, 10>> >>
PaddockSpots == { <<3, 2>>, <<10, 10>> }
TapPoints == IF appState = "drawing-farm"
             THEN { FarmCorners[(Len(currentPolygon) % Len(FarmCorners)) + 1] }
             ELSE PaddockSpots
\* where a point or a vertex is dropped: the spot outside; a point of a
\* paddock that is being drawn is also dropped on the spot inside
DropPoints == { <<10, 10>> }
DragPoints == IF appState = "drawing-farm" THEN DropPoints ELSE PaddockSpots
\* which drawn point is dragged: of the farm's outline the first corner, of a
\* paddock's any point
DragIndices == IF appState = "drawing-farm" THEN {1} ELSE 1..MaxDraw

\* state after construction (HomeScreen.tsx:65-93), before the mount effects
Constructed ==
    /\ appState = "initial"
    /\ isEditMode = FALSE
    /\ drawingMode = "farm"
    /\ selectedPolygonId = NoId
    /\ selectedFarmId = NoId
    /\ currentPolygon = <<>>
    /\ completedPolygons = <<>>
    /\ showPaddockModal = FALSE
    /\ paddockInfo = 0
    /\ bottomMenuMode = "null"
    /\ livestockData = <<>>
    /\ livestockAnnotations = <<>>
    /\ heatmapData = <<>>
    /\ alert = "none"
    /\ dirty = {"mount"}

ScreenInit ==
    /\ Constructed
    /\ storage = EmptyStorage
    /\ clock = 0

\* A handler runs once the effects of the previous commit have run.  An
\* Alert.alert dialog stays in front of the screen until one of its buttons
\* is pressed, and the paddock modal, while visible, covers the map and the
\* panels.
Idle == dirty = {}
Interactive == Idle /\ alert = "none" /\ ~showPaddockModal

\* what a commit leaves for the effects: a setter given a new object always
\* changes the state, a setter given a string or null only when it differs
Changed(old, new, name) == IF old # new THEN {name} ELSE {}

\* seeded fault: paddock mode counts as a drawing state
DrawingOrPaddockMode == appState \in {"drawing-farm", "drawing-paddock", "paddock-mode"}

\* appState === 'drawing-farm' || appState === 'drawing-paddock', HomeScreen.tsx:440
Drawing == appState \in {"drawing-farm", "drawing-paddock"}

\* seeded fault: the button is shown in paddock mode as well
FarmButtonShownLate == appState \in {"initial", "paddock-mode"}

\* `Draw Farm Boundary` is rendered, ControlPanel.tsx:65-69
FarmButtonShown == appState = "initial"

startDrawingFarm ==
    /\ Interactive
    /\ FarmButtonShown
    /\ clock < MaxClock
    /\ appState' = "drawing-farm"
    /\ drawingMode' = "farm"
    /\ selectedPolygonId' = NoId
    /\ currentPolygon' = <<>>
    /\ alert' = "Draw Farm Boundary"
    /\ dirty' = {"appState"}
    /\ UNCHANGED <<isEditMode, selectedFarmId, completedPolygons, showPaddockModal,
                   paddockInfo, bottomMenuMode, livestockData, livestockAnnotations,
                   heatmapData, storage, clock, call, ret>>

\* the first feature whose ring contains the point (Array.prototype.find)
TappedPolygonId(point) ==
    LET hits == { k \in 1..Len(completedPolygons) :
                     isPointInPolygon(point, completedPolygons[k].ring) }
    IN  IF hits = {} THEN NoId ELSE completedPolygons[MinOf(hits)].id

onMapPress(point) ==
    /\ Interactive
    /\ IF Drawing
       THEN /\ Len(currentPolygon) < MaxDraw
            /\ currentPolygon' = Append(currentPolygon, point)
            /\ UNCHANGED selectedPolygonId
       ELSE /\ isEditMode
            /\ selectedPolygonId' = TappedPolygonId(point)
            /\ UNCHANGED currentPolygon
    /\ dirty' = {}
    /\ UNCHANGED <<appState, isEditMode, drawingMode, selectedFarmId, completedPolygons,
                   showPaddockModal, paddockInfo, bottomMenuMode, livestockData,
                   livestockAnnotations, heatmapData, storage, alert, clock, call, ret>>

\* the drawn points carry unique ids, so the point dragged is named by its index
onDrawingPointDrag(index, newCoordinate) ==
    /\ Interactive
    /\ Drawing                                    \* HomeScreen.tsx:746
    /\ index \in 1..Len(currentPolygon)
    /\ currentPolygon' = [currentPolygon EXCEPT ![index] = newCoordinate]
    /\ dirty' = {}
    /\ UNCHANGED <<appState, isEditMode, drawingMode, selectedPolygonId, selectedFarmId,
                   completedPolygons, showPaddockModal, paddockInfo, bottomMenuMode,
                   livestockData, livestockAnnotations, heatmapData, storage, alert,
                   clock, call, ret>>

\* seeded fault: cancelling always returns to the initial state
CancelTargetInitial(state) == "initial"

\* the state cancelDrawing returns to, HomeScreen.tsx:238-242
CancelTarget(state) ==
    CASE state = "drawing-farm" -> "initial"
      [] state = "drawing-paddock" -> "paddock-mode"
      [] OTHER -> state

cancelDrawing ==
    /\ Interactive
    /\ Drawing                                    \* ControlPanel.tsx:71-80, 107-116
    /\ appState' = CancelTarget(appState)
    /\ currentPolygon' = <<>>
    /\ dirty' = {"appState"}
    /\ UNCHANGED <<isEditMode, drawingMode, selectedPolygonId, selectedFarmId,
                   completedPolygons, showPaddockModal, paddockInfo, bottomMenuMode,
                   livestockData, livestockAnnotations, heatmapData, storage, alert,
                   clock, call, ret>>

\* seeded fault: two points are enough
TooFewPointsForTwo(polygon) == Len(polygon) < 2

\* currentPolygon.length < 3, HomeScreen.tsx:247 and 291
TooFewPoints(polygon) == Len(polygon) < 3

completeFarm ==
    /\ Interactive
    /\ appState = "drawing-farm"                  \* ControlPanel.tsx:71
    /\ IF TooFewPoints(currentPolygon)
       THEN /\ alert' = "Error"
            /\ dirty' = {}
            /\ UNCHANGED <<appState, selectedFarmId, currentPolygon, completedPolygons,
                           bottomMenuMode, clock>>
       ELSE LET polygonId == <<"farm", clock + 1>>
            IN  /\ completedPolygons' =
                      Append(completedPolygons,
                             Feature(polygonId, "farm", NoId, createClosedPolygon(currentPolygon)))
                /\ selectedFarmId' = polygonId
                /\ currentPolygon' = <<>>
                /\ appState' = "paddock-mode"
                /\ bottomMenuMode' = "paddock"
                /\ alert' = "Farm Boundary Created!"
                /\ clock' = clock + 1
                /\ dirty' = {"completedPolygons", "appState"}
                              \cup Changed(selectedFarmId, polygonId, "selectedFarmId")
                              \cup Changed(bottomMenuMode, "paddock", "bottomMenuMode")
    /\ UNCHANGED <<isEditMode, drawingMode, selectedPolygonId, showPaddockModal, paddockInfo,
                   livestockData, livestockAnnotations, heatmapData, storage, call, ret>>

\* seeded fault: only the first drawn point is validated
PaddockRejectedByFirstPoint ==
    /\ selectedFarmId # NoId
    /\ HasFeature(completedPolygons, selectedFarmId)
    /\ ~isPointInPolygon(currentPolygon[1],
                         FindFeature(completedPolygons, selectedFarmId).ring)

\* HomeScreen.tsx:299-315: the drawn points fail the validation
PaddockRejected ==
    /\ selectedFarmId # NoId
    /\ HasFeature(completedPolygons, selectedFarmId)
    /\ ~isPaddockWithinFarm(currentPolygon, FindFeature(completedPolygons, selectedFarmId).ring)

completePaddock ==
    /\ Interactive
    /\ appState = "drawing-paddock"               \* ControlPanel.tsx:107
    /\ IF TooFewPoints(currentPolygon)
       THEN /\ alert' = "Error"
            /\ UNCHANGED <<paddockInfo, showPaddockModal>>
       ELSE IF PaddockRejected
       THEN /\ alert' = "Invalid Paddock"
            /\ UNCHANGED <<paddockInfo, showPaddockModal>>
       ELSE /\ paddockInfo' =
                  Len(getPaddocksForFarm(completedPolygons,
                         IF selectedFarmId # NoId THEN selectedFarmId ELSE EmptyString)) + 1
            /\ showPaddockModal' = TRUE
            /\ UNCHANGED alert
    /\ dirty' = {}
    /\ UNCHANGED <<appState, isEditMode, drawingMode, selectedPolygonId, selectedFarmId,
                   currentPolygon, completedPolygons, bottomMenuMode, livestockData,
                   livestockAnnotations, heatmapData, storage, clock, call, ret>>

\* the modal's Save button: the default name is not blank, so onSave runs
handleSavePaddock ==
    /\ Idle /\ alert = "none"
    /\ showPaddockModal
    /\ completedPolygons' =
          Append(completedPolygons,
                 Feature(<<"paddock", clock + 1>>, "paddock", selectedFarmId,
                         createClosedPolygon(currentPolygon)))
    /\ currentPolygon' = <<>>
    /\ appState' = "paddock-mode"
    /\ showPaddockModal' = FALSE
    /\ alert' = "Paddock Created!"
    /\ clock' = clock + 1
    /\ dirty' = {"completedPolygons"} \cup Changed(appState, "paddock-mode", "appState")
    /\ UNCHANGED <<isEditMode, drawingMode, selectedPolygonId, selectedFarmId, paddockInfo,
                   bottomMenuMode, livestockData, livestockAnnotations, heatmapData,
                   storage, call, ret>>

handleCancelPaddock ==
    /\ Idle /\ alert = "none"
    /\ showPaddockModal
    /\ showPaddockModal' = FALSE
    /\ dirty' = {}
    /\ UNCHANGED <<appState, isEditMode, drawingMode, selectedPolygonId, selectedFarmId,
                   currentPolygon, completedPolygons, paddockInfo, bottomMenuMode,
                   livestockData, livestockAnnotations, heatmapData, storage, alert,
                   clock, call, ret>>

\* the single `OK` button of a dialog, or `Cancel` of the Clear All dialog
dismissAlert ==
    /\ Idle
    /\ alert # "none"
    /\ alert' = "none"
    /\ UNCHANGED <<appState, isEditMode, drawingMode, selectedPolygonId, selectedFarmId,
                   currentPolygon, completedPolygons, showPaddockModal, paddockInfo,
                   bottomMenuMode, livestockData, livestockAnnotations, heatmapData,
                   storage, dirty, clock, call, ret>>

MenuState(mode) ==
    CASE mode = "paddock" -> "paddock-mode"
      [] mode = "livestock" -> "livestock-mode"
      [] mode = "heatmap" -> "heatmap-mode"

handleBottomMenuSelect(mode) ==
    /\ Interactive
    /\ appState \in {"paddock-mode", "livestock-mode", "heatmap-mode"}   \* HomeScreen.tsx:608
    /\ bottomMenuMode' = mode
    /\ appState' = MenuState(mode)
    /\ dirty' = Changed(bottomMenuMode, mode, "bottomMenuMode")
                  \cup Changed(appState, MenuState(mode), "appState")
    /\ UNCHANGED <<isEditMode, drawingMode, selectedPolygonId, selectedFarmId, currentPolygon,
                   completedPolygons, showPaddockModal, paddockInfo, livestockData,
                   livestockAnnotations, heatmapData, storage, alert, clock, call, ret>>

handleAddPaddock ==
    /\ Interactive
    /\ appState = "paddock-mode"                  \* HomeScreen.tsx:615
    /\ clock < MaxClock
    /\ appState' = "drawing-paddock"
    /\ drawingMode' = "paddock"
    /\ selectedPolygonId' = NoId
    /\ currentPolygon' = <<>>
    /\ alert' = "Draw Paddock"
    /\ dirty' = {"appState"}
    /\ UNCHANGED <<isEditMode, selectedFarmId, completedPolygons, showPaddockModal,
                   paddockInfo, bottomMenuMode, livestockData, livestockAnnotations,
                   heatmapData, storage, clock, call, ret>>

(***************************************************************************)
(* Specification of the geometry kernel: a call is drawn, then evaluated   *)
(***************************************************************************)
InitGeometry ==
    /\ ScreenInit
    /\ \/ \E p \in Points, r \in RectRings : call = PointCall(p, r)
       \/ \E p \in ExamplePoints, r \in ExampleRings : call = PointCall(p, r)
       \/ \E pr \in PaddockRings, fr \in FarmRings : call = PaddockCall(pr, fr)
    /\ ret = NoRet

CallIsPointInPolygon ==
    /\ call.fn = "isPointInPolygon"
    /\ ~ret.done
    /\ ret' = [NoRet EXCEPT !.done = TRUE, !.bool = isPointInPolygon(call.point, call.ring)]
    /\ UNCHANGED <<call, screenVars>>

CallIsPaddockWithinFarm ==
    /\ call.fn = "isPaddockWithinFarm"
    /\ ~ret.done
    /\ ret' = [NoRet EXCEPT !.done = TRUE, !.bool = isPaddockWithinFarm(call.ring, call.farm)]
    /\ UNCHANGED <<call, screenVars>>

NextGeometry == CallIsPointInPolygon \/ CallIsPaddockWithinFarm

SpecGeometry == InitGeometry /\ [][NextGeometry]_vars

(***************************************************************************)
(* Specification of the ring helpers                                       *)
(***************************************************************************)
RingCall(fn, ring) == [NoCall EXCEPT !.fn = fn, !.ring = ring]

\* lists of points: every list of one or two grid points, the rectangles
\* open and closed, the square and the U-shaped farm
RingInputs ==
    UNION { (DegenerateRings \ {<<>>}), RectRings,
            { SpecSquare, createClosedPolygon(SpecSquare), ConcaveFarm } }

InitRings ==
    /\ ScreenInit
    /\ \/ \E r \in RingInputs : call = RingCall("createClosedPolygon", r)
       \/ \E r \in RingInputs \cup {<<>>} : call = RingCall("getPolygonCentroid", r)
    /\ ret = NoRet

CallCreateClosedPolygon ==
    /\ call.fn = "createClosedPolygon"
    /\ ~ret.done
    /\ ret' = [NoRet EXCEPT !.done = TRUE, !.seq = createClosedPolygon(call.ring)]
    /\ UNCHANGED <<call, screenVars>>

CallGetPolygonCentroid ==
    /\ call.fn = "getPolygonCentroid"
    /\ ~ret.done
    /\ ret' = [NoRet EXCEPT !.done = TRUE, !.seq = getPolygonCentroid(call.ring)]
    /\ UNCHANGED <<call, screenVars>>

NextRings == CallCreateClosedPolygon \/ CallGetPolygonCentroid

SpecRings == InitRings /\ [][NextRings]_vars

(***************************************************************************)
(* Specification of the initials                                           *)
(***************************************************************************)
MaxNameLen == 4        \* longest generic name

NameCall(name) == [NoCall EXCEPT !.fn = "getNameInitials", !.name = name]

\* the characters generic names are made of: a lower-case and an upper-case
\* Latin letter, a digit, a symbol, two kinds of white space and a letter
\* outside A-Z
NameChars == { "e", "P", "7", "-", " ", "\t", "e-acute" }

EastPaddock == <<"E", "a", "s", "t", " ", "P", "a", "d", "d", "o", "c", "k">>
SevenField == <<"7", " ", "F", "i", "e", "l", "d">>
NorthEastField == <<"N", "o", "r", "t", "h", " ", "E", "a", "s", "t", " ", "F", "i", "e", "l", "d">>

InitNames ==
    /\ ScreenInit
    /\ \/ \E name \in SeqsUpTo(NameChars, MaxNameLen) : call = NameCall(name)
       \/ \E name \in { EastPaddock, SevenField, NorthEastField } : call = NameCall(name)
    /\ ret = NoRet

CallGetNameInitials ==
    /\ call.fn = "getNameInitials"
    /\ ~ret.done
    /\ ret' = [NoRet EXCEPT !.done = TRUE, !.seq = getNameInitials(call.name)]
    /\ UNCHANGED <<call, screenVars>>

NextNames == CallGetNameInitials

SpecNames == InitNames /\ [][NextNames]_vars

(***************************************************************************)
(* Specification of the heatmap generator                                  *)
(***************************************************************************)
MaxFeatures == 2       \* longest generic collection

HeatmapCall(polygons, records, noise) ==
    [NoCall EXCEPT !.fn = "generateHeatmapData", !.polygons = polygons,
                   !.livestockData = records, !.noise = noise]

Record(paddockId, count, type, status) ==
    [paddockId |-> paddockId, count |-> count, type |-> type, status |-> status]

FarmA == Feature(<<"farm", 1>>, "farm", NoId, createClosedPolygon(SpecSquare))
FarmB == Feature(<<"farm", 2>>, "farm", NoId,
                 <<<<0, 0>>, <<0, 4>>, <<4, 4>>, <<4, 0>>, <<0, 0>>>>)
Paddock1 == Feature(<<"paddock", 1>>, "paddock", <<"farm", 1>>,
                    <<<<2, 2>>, <<2, 6>>, <<6, 6>>, <<6, 2>>, <<2, 2>>>>)
Paddock2 == Feature(<<"paddock", 2>>, "paddock", <<"farm", 1>>,
                    <<<<4, 4>>, <<4, 8>>, <<8, 8>>, <<8, 4>>, <<4, 4>>>>)

\* a paddock along the southern edge of FarmA, where the movement and
\* grazing patterns both peak
PaddockSouth == Feature(<<"paddock", 4>>, "paddock", <<"farm", 1>>,
                        <<<<2, 0>>, <<2, 2>>, <<4, 2>>, <<4, 0>>, <<2, 0>>>>)

\* farms whose ring has fewer than three entries
FewPoints == { <<0, 0>>, <<MaxCoord, MaxCoord>>, <<0, MaxCoord>>, <<1, 2>> }
DegenerateFarms ==
    { Feature(<<"farm", 3>>, "farm", NoId, r) : r \in SeqsUpTo(FewPoints, MaxDegenerate) }

HeatmapCollections ==
    SeqsUpTo({FarmA, FarmB, Paddock1, Paddock2}, MaxFeatures)
      \cup { <<FarmA, Paddock1, Paddock2>>, <<Paddock1, Paddock2, Paddock1>>,
             <<FarmA, FarmB, Paddock1>>, <<FarmB, Paddock1, FarmA>> }

HeatmapRecords ==
    { <<>>,
      <<Record(<<"paddock", 1>>, 619, "cattle", "healthy")>>,
      <<Record(<<"paddock", 1>>, 0, "sheep", "attention"),
        Record(<<"paddock", 2>>, 45, "sheep", "breeding")>>,
      <<Record(<<"paddock", 2>>, 1500, "cattle", "medication"),
        Record(<<"paddock", 1>>, 20, "cattle", "healthy")>> }

NoiseTapes == { <<0>>, <<RandDen - 1, RandDen \div 2, 0>> }

HeatmapCalls ==
    { HeatmapCall(c, r, t) : c \in HeatmapCollections, r \in HeatmapRecords, t \in NoiseTapes }
      \cup { HeatmapCall(c, r, <<0>>) :
                c \in { <<f, Paddock1>> : f \in DegenerateFarms }
                        \cup { <<f, FarmA, Paddock1>> : f \in DegenerateFarms },
                r \in { <<>>, <<Record(<<"paddock", 1>>, 619, "cattle", "healthy")>> } }
      \cup { HeatmapCall(<<FarmA, PaddockSouth>>,
                         <<Record(<<"paddock", 4>>, 1500, "cattle", "healthy")>>, t) :
                t \in NoiseTapes }

InitHeatmap ==
    /\ ScreenInit
    /\ \/ call \in HeatmapCalls
       \/ \E p \in Points, r \in DegenerateRings : call = PointCall(p, r)
    /\ ret = NoRet

CallGenerateHeatmapData ==
    /\ call.fn = "generateHeatmapData"
    /\ ~ret.done
    /\ ret' = [NoRet EXCEPT !.done = TRUE,
                            !.seq = generateHeatmapData(call.polygons, call.livestockData, call.noise)]
    /\ UNCHANGED <<call, screenVars>>

NextHeatmap == CallGenerateHeatmapData \/ CallIsPointInPolygon

SpecHeatmap == InitHeatmap /\ [][NextHeatmap]_vars

(***************************************************************************)
(* Specification of the annotation layer                                   *)
(***************************************************************************)
MaxRecords == 2        \* longest generic livestock record list

AnnotationCall(polygons, records) ==
    [NoCall EXCEPT !.fn = "createLivestockAnnotations", !.polygons = polygons,
                   !.livestockData = records]

MockCall(polygons) ==
    [NoCall EXCEPT !.fn = "generateMockLivestockData", !.polygons = polygons]

\* a paddock with an open three-point ring
Paddock3 == Feature(<<"paddock", 3>>, "paddock", NoId, <<<<1, 1>>, <<2, 5>>, <<4, 1>>>>)

LivestockCollections ==
    SeqsUpTo({FarmA, Paddock1, Paddock2, Paddock3}, MaxFeatures)
      \cup { <<FarmA, Paddock1, Paddock2>>, <<Paddock3, FarmA, Paddock1>> }

RecordCatalog ==
    { Record(<<"paddock", 1>>, 45, "sheep", "attention"),
      Record(<<"paddock", 1>>, 0, "goats", "quarantine"),
      Record(<<"paddock", 2>>, 619, "cattle", "medication"),
      Record(<<"farm", 1>>, 7, "horses", "breeding") }

LivestockCalls ==
    { AnnotationCall(c, r) : c \in LivestockCollections,
                             r \in SeqsUpTo(RecordCatalog, MaxRecords) }
      \cup { MockCall(c) : c \in LivestockCollections }

\* The outcomes enumerated for the Math.random() calls of one run of
\* generateMockLivestockData: per paddock one of a few triples (count, type,
\* status draw); when the collection has a single paddock, also every
\* outcome of the count draw.
DrawTriples ==
    { <<0, 0, 0>>,
      <<RandDen \div 4, RandDen \div 2, RandDen \div 4>>,
      <<RandDen \div 2, 0, RandDen \div 2>>,
      <<RandDen - 1, RandDen - 1, RandDen - 1>> }

RECURSIVE Flatten(_)
Flatten(triples) ==
    IF triples = <<>> THEN <<>> ELSE Head(triples) \o Flatten(Tail(triples))

DrawTapes(n) ==
    { Flatten(t) : t \in [1..n -> DrawTriples] }
      \cup (IF n = 1
            THEN { <<r, s, s>> : r \in RandomOutcomes, s \in {0, RandDen - 1} }
            ELSE {})

InitLivestock ==
    /\ ScreenInit
    /\ call \in LivestockCalls
    /\ ret = NoRet

CallCreateLivestockAnnotations ==
    /\ call.fn = "createLivestockAnnotations"
    /\ ~ret.done
    /\ ret' = [NoRet EXCEPT !.done = TRUE,
                            !.seq = createLivestockAnnotations(call.polygons, call.livestockData)]
    /\ UNCHANGED <<call, screenVars>>

CallGenerateMockLivestockData ==
    /\ call.fn = "generateMockLivestockData"
    /\ ~ret.done
    /\ \E draws \in DrawTapes(Len(PaddockFeatures(call.polygons))) :
          ret' = [NoRet EXCEPT !.done = TRUE,
                               !.seq = generateMockLivestockData(call.polygons, draws)]
    /\ UNCHANGED <<call, screenVars>>

NextLivestock == CallCreateLivestockAnnotations \/ CallGenerateMockLivestockData

SpecLivestock == InitLivestock /\ [][NextLivestock]_vars

(***************************************************************************)
(* Specification of repeated calls: a core operation is called, and then   *)
(* called once more with the same arguments.  Math.random() is not an      *)
(* argument: each call reads its own outcomes.                             *)
(***************************************************************************)
FilterCall(fn, polygons, farmId) ==
    [NoCall EXCEPT !.fn = fn, !.polygons = polygons, !.farmId = farmId]

GeoJSONCall(heatmapPoints) ==
    [NoCall EXCEPT !.fn = "createHeatmapGeoJSON", !.heatmapData = heatmapPoints]

HeatmapPoint(i, j, value) ==
    [id |-> <<"heatmap", i, j>>,
     coordinates |-> <<Quotient(2 * i, 5), Quotient(2 * j, 5)>>,
     value |-> value,
     type |-> "livestock-density"]

RepeatCollections ==
    { <<>>, <<Paddock1>>, <<FarmA, Paddock1>>, <<FarmB, Paddock1>>,
      <<FarmA, Paddock1, Paddock2>>, <<FarmA, FarmB, Paddock1>>, <<FarmA, PaddockSouth>> }

RepeatRecords ==
    HeatmapRecords \cup { <<Record(<<"paddock", 4>>, 1500, "cattle", "healthy")>> }

RepeatCalls ==
    UNION { { PointCall(p, r) : p \in ExamplePoints, r \in ExampleRings },
            { PaddockCall(pr, fr) : pr \in { BulgingPaddock, <<<<1, 1>>, <<1, 5>>, <<3, 5>>>> },
                                    fr \in ExampleRings },
            { RingCall(fn, r) : fn \in { "createClosedPolygon", "getPolygonCentroid" },
                                r \in ExampleRings },
            { FilterCall(fn, c, <<"farm", 1>>) :
                 fn \in { "getFarmBoundaries", "getPaddocksForFarm" }, c \in RepeatCollections },
            { AnnotationCall(c, r) : c \in RepeatCollections, r \in RepeatRecords },
            { HeatmapCall(c, r, <<>>) : c \in RepeatCollections, r \in RepeatRecords },
            { GeoJSONCall(h) : h \in { <<>>, <<HeatmapPoint(0, 0, 5)>>,
                                       <<HeatmapPoint(7, 1, 100), HeatmapPoint(7, 2, 0)>> } } }

\* what a call returns when Math.random() has the outcomes `noise`
Result(c, noise) ==
    CASE c.fn = "isPointInPolygon" ->
            [NoRet EXCEPT !.done = TRUE, !.bool = isPointInPolygon(c.point, c.ring)]
      [] c.fn = "isPaddockWithinFarm" ->
            [NoRet EXCEPT !.done = TRUE, !.bool = isPaddockWithinFarm(c.ring, c.farm)]
      [] c.fn = "createClosedPolygon" ->
            [NoRet EXCEPT !.done = TRUE, !.seq = createClosedPolygon(c.ring)]
      [] c.fn = "getPolygonCentroid" ->
            [NoRet EXCEPT !.done = TRUE, !.seq = getPolygonCentroid(c.ring)]
      [] c.fn = "getFarmBoundaries" ->
            [NoRet EXCEPT !.done = TRUE, !.seq = getFarmBoundaries(c.polygons)]
      [] c.fn = "getPaddocksForFarm" ->
            [NoRet EXCEPT !.done = TRUE, !.seq = getPaddocksForFarm(c.polygons, c.farmId)]
      [] c.fn = "createLivestockAnnotations" ->
            [NoRet EXCEPT !.done = TRUE,
                          !.seq = createLivestockAnnotations(c.polygons, c.livestockData)]
      [] c.fn = "generateHeatmapData" ->
            [NoRet EXCEPT !.done = TRUE,
                          !.seq = generateHeatmapData(c.polygons, c.livestockData, noise)]
      [] c.fn = "createHeatmapGeoJSON" ->
            [NoRet EXCEPT !.done = TRUE, !.seq = createHeatmapGeoJSON(c.heatmapData)]

InitRepeat ==
    /\ ScreenInit
    /\ call \in RepeatCalls
    /\ ret = NoRet

CallOnce ==
    /\ ~ret.done
    /\ \E noise \in NoiseTapes : ret' = Result(call, noise)
    /\ UNCHANGED <<call, screenVars>>

CallAgain ==
    /\ ret.done
    /\ ~ret.again
    /\ \E noise \in NoiseTapes : ret' = [Result(call, noise) EXCEPT !.again = TRUE]
    /\ UNCHANGED <<call, screenVars>>

NextRepeat == CallOnce \/ CallAgain

SpecRepeat == InitRepeat /\ [][NextRepeat]_vars

(***************************************************************************)
(* The screen's effects (HomeScreen.tsx:96-195).  After a commit the       *)
(* effects whose dependencies changed run in the order they are declared,  *)
(* all reading the state of that render; the setters they call take        *)
(* effect together in the next commit.                                     *)
(***************************************************************************)
\* The outcomes enumerated for Math.random() in the effects: per paddock all
\* three draws at their least or all at their greatest; one tape for the
\* background of the heatmap.
ScreenDrawTriples == { <<0, 0, 0>>, <<RandDen - 1, RandDen - 1, RandDen - 1>> }
ScreenDrawTapes(n) == { Flatten(t) : t \in [1..n -> ScreenDrawTriples] }
ScreenNoiseTapes == { <<RandDen - 1, RandDen \div 2, 0>> }

Mounting == "mount" \in dirty
Runs(dep) == Mounting \/ dep \in dirty

\* the four auto-save effects, HomeScreen.tsx:131-150
AfterSavePolygons(store) ==
    IF Runs("completedPolygons") /\ Len(completedPolygons) > 0
    THEN saveCompletedPolygons(store, completedPolygons) ELSE store

AfterSaveAppState(store) ==
    IF Runs("appState") THEN saveAppState(store, appState) ELSE store

AfterSaveSelectedFarmId(store) ==
    IF Runs("selectedFarmId") THEN saveSelectedFarmId(store, selectedFarmId) ELSE store

AfterSaveBottomMenuMode(store) ==
    IF Runs("bottomMenuMode") THEN saveBottomMenuMode(store, bottomMenuMode) ELSE store

\* seeded fault: the store is read after the auto-save effects of the pass
LoadEffectReadsLate(store) ==
    loadAllData(AfterSaveBottomMenuMode(AfterSaveSelectedFarmId(
                   AfterSaveAppState(AfterSavePolygons(store)))))

\* the load effect is declared first and reads the store as the mount finds
\* it, HomeScreen.tsx:95-98
LoadEffectReads(store) == loadAllData(store)

\* seeded fault: the annotation effect depends on [completedPolygons] alone
AnnotationEffectOnPolygons ==
    /\ Runs("completedPolygons")
    /\ Len(livestockData) > 0

\* the annotation effect calls createLivestockAnnotations(completedPolygons,
\* livestockData) in this pass, HomeScreen.tsx:167-182
AnnotationEffectCalls ==
    /\ Runs("completedPolygons") \/ Runs("livestockData")
    /\ Len(livestockData) > 0

\* the heatmap effect calls generateHeatmapData(completedPolygons,
\* livestockData) in this pass, HomeScreen.tsx:185-195
HeatmapEffectCalls ==
    /\ Runs("completedPolygons") \/ Runs("livestockData")
    /\ Len(getFarmBoundaries(completedPolygons)) > 0
    /\ Len(livestockData) > 0

\* seeded fault: the livestock effect runs on mount only
LivestockEffectOnMount == Mounting

\* the livestock effect depends on [completedPolygons], HomeScreen.tsx:164
LivestockEffectRuns == Runs("completedPolygons")

\* One pass of the effects (HomeScreen.tsx:96-195).  Every effect of a pass
\* reads the values of the same render, so the conjuncts below may stand in
\* any order; the effect that draws random numbers is written last.
RunEffects ==
    /\ dirty # {}
    /\ LET saved == LoadEffectReads(storage)
           loadsPolygons == Mounting /\ Len(saved.completedPolygons) > 0
           nextFarmId == IF Mounting /\ saved.selectedFarmId # NoId
                         THEN saved.selectedFarmId ELSE selectedFarmId
           nextAppState == IF Mounting /\ saved.appState # "initial"
                           THEN saved.appState ELSE appState
           nextMenuMode == IF Mounting /\ saved.bottomMenuMode # "null"
                           THEN saved.bottomMenuMode ELSE bottomMenuMode
           paddocks == PaddockFeatures(completedPolygons)
           stocked == Runs("completedPolygons") \/ Runs("livestockData")
       IN  /\ storage' = AfterSaveBottomMenuMode(AfterSaveSelectedFarmId(
                            AfterSaveAppState(AfterSavePolygons(storage))))
           /\ completedPolygons' =
                 IF loadsPolygons THEN saved.completedPolygons ELSE completedPolygons
           /\ selectedFarmId' = nextFarmId
           /\ appState' = nextAppState
           /\ bottomMenuMode' = nextMenuMode
           /\ IF AnnotationEffectCalls
              THEN livestockAnnotations' =
                      createLivestockAnnotations(completedPolygons, livestockData)
              ELSE UNCHANGED livestockAnnotations
           /\ IF stocked
              THEN IF Len(getFarmBoundaries(completedPolygons)) > 0 /\ Len(livestockData) > 0
                   THEN \E noise \in ScreenNoiseTapes :
                           heatmapData' =
                              generateHeatmapData(completedPolygons, livestockData, noise)
                   ELSE heatmapData' = <<>>
              ELSE UNCHANGED heatmapData
           /\ IF LivestockEffectRuns
              THEN IF Len(paddocks) > 0
                   THEN \E draws \in ScreenDrawTapes(Len(paddocks)) :
                           livestockData' = generateMockLivestockData(completedPolygons, draws)
                   ELSE livestockData' = <<>>
              ELSE UNCHANGED livestockData
           /\ dirty' = (IF loadsPolygons THEN {"completedPolygons"} ELSE {})
                         \cup Changed(selectedFarmId, nextFarmId, "selectedFarmId")
                         \cup Changed(appState, nextAppState, "appState")
                         \cup Changed(bottomMenuMode, nextMenuMode, "bottomMenuMode")
                         \cup (IF LivestockEffectRuns THEN {"livestockData"} ELSE {})
    /\ UNCHANGED <<isEditMode, drawingMode, selectedPolygonId, currentPolygon,
                   showPaddockModal, paddockInfo, alert, clock, call, ret>>

\* the app is closed and opened again: the component is constructed anew,
\* the store and the wall clock stay
Relaunch ==
    /\ Idle
    /\ appState' = "initial"
    /\ isEditMode' = FALSE
    /\ drawingMode' = "farm"
    /\ selectedPolygonId' = NoId
    /\ selectedFarmId' = NoId
    /\ currentPolygon' = <<>>
    /\ completedPolygons' = <<>>
    /\ showPaddockModal' = FALSE
    /\ paddockInfo' = 0
    /\ bottomMenuMode' = "null"
    /\ livestockData' = <<>>
    /\ livestockAnnotations' = <<>>
    /\ heatmapData' = <<>>
    /\ alert' = "none"
    /\ dirty' = {"mount"}
    /\ UNCHANGED <<storage, clock, call, ret>>

(***************************************************************************)
(* Handlers that ControlPanel offers only while appState is                *)
(* 'farm-completed' (ControlPanel.tsx:82-94), and those reached through    *)
(* them.                                                                   *)
(***************************************************************************)
startDrawingPaddock ==
    /\ Interactive
    /\ clock < MaxClock
    /\ appState' = "drawing-paddock"
    /\ drawingMode' = "paddock"
    /\ selectedPolygonId' = NoId
    /\ currentPolygon' = <<>>
    /\ alert' = "Draw Paddock"
    /\ dirty' = Changed(appState, "drawing-paddock", "appState")
    /\ UNCHANGED <<isEditMode, selectedFarmId, completedPolygons, showPaddockModal,
                   paddockInfo, bottomMenuMode, livestockData, livestockAnnotations,
                   heatmapData, storage, clock, call, ret>>

enterEditMode ==
    /\ Interactive
    /\ isEditMode' = TRUE
    /\ appState' = "editing"
    /\ alert' = "Edit Mode"
    /\ dirty' = Changed(appState, "editing", "appState")
    /\ UNCHANGED <<drawingMode, selectedPolygonId, selectedFarmId, currentPolygon,
                   completedPolygons, showPaddockModal, paddockInfo, bottomMenuMode,
                   livestockData, livestockAnnotations, heatmapData, storage, clock,
                   call, ret>>

exitEditMode ==
    /\ Interactive
    /\ appState = "editing"                       \* ControlPanel.tsx:96-105
    /\ isEditMode' = FALSE
    /\ selectedPolygonId' = NoId
    /\ appState' = "paddock-mode"
    /\ dirty' = {"appState"}
    /\ UNCHANGED <<drawingMode, selectedFarmId, currentPolygon, completedPolygons,
                   showPaddockModal, paddockInfo, bottomMenuMode, livestockData,
                   livestockAnnotations, heatmapData, storage, alert, clock, call, ret>>

\* HomeScreen.tsx:469-478: the ring after the drag of one vertex
\* seeded fault: the closing point is not updated
DraggedRingOpen(ring, vertexIndex, newCoordinate) ==
    [ring EXCEPT ![vertexIndex] = newCoordinate]

DraggedRing(ring, vertexIndex, newCoordinate) ==
    LET moved == [ring EXCEPT ![vertexIndex] = newCoordinate]
    IN  [moved EXCEPT ![Len(moved)] = moved[1]]

onVertexDrag(vertexIndex, newCoordinate) ==
    /\ Interactive
    /\ selectedPolygonId # NoId
    /\ HasFeature(completedPolygons, selectedPolygonId)
    /\ vertexIndex \in 1..Len(getPolygonVertices(completedPolygons, selectedPolygonId))
    /\ completedPolygons' =
          [k \in 1..Len(completedPolygons) |->
              IF completedPolygons[k].id = selectedPolygonId
              THEN [completedPolygons[k] EXCEPT
                       !.ring = DraggedRing(completedPolygons[k].ring, vertexIndex, newCoordinate)]
              ELSE completedPolygons[k]]
    /\ dirty' = {"completedPolygons"}
    /\ UNCHANGED <<appState, isEditMode, drawingMode, selectedPolygonId, selectedFarmId,
                   currentPolygon, showPaddockModal, paddockInfo, bottomMenuMode,
                   livestockData, livestockAnnotations, heatmapData, storage, alert,
                   clock, call, ret>>

\* HomeScreen.tsx:401-409: the confirmation dialog opens
clearAll ==
    /\ Interactive
    /\ alert' = "Clear All"
    /\ UNCHANGED <<appState, isEditMode, drawingMode, selectedPolygonId, selectedFarmId,
                   currentPolygon, completedPolygons, showPaddockModal, paddockInfo,
                   bottomMenuMode, livestockData, livestockAnnotations, heatmapData,
                   storage, dirty, clock, call, ret>>

\* the `Clear` button of that dialog, HomeScreen.tsx:410-426
confirmClearAll ==
    /\ Idle
    /\ alert = "Clear All"
    /\ storage' = clearAllData(storage)
    /\ completedPolygons' = <<>>
    /\ currentPolygon' = <<>>
    /\ selectedPolygonId' = NoId
    /\ selectedFarmId' = NoId
    /\ isEditMode' = FALSE
    /\ appState' = "initial"
    /\ bottomMenuMode' = "null"
    /\ livestockData' = <<>>
    /\ livestockAnnotations' = <<>>
    /\ heatmapData' = <<>>
    /\ alert' = "none"
    /\ dirty' = {"completedPolygons", "livestockData"}
                  \cup Changed(selectedFarmId, NoId, "selectedFarmId")
                  \cup Changed(appState, "initial", "appState")
                  \cup Changed(bottomMenuMode, "null", "bottomMenuMode")
    /\ UNCHANGED <<drawingMode, showPaddockModal, paddockInfo, clock, call, ret>>

(***************************************************************************)
(* Specification of the screen as it renders: the user acts through the    *)
(* controls shown in the current state.                                    *)
(***************************************************************************)
BottomMenuModes == {"paddock", "livestock", "heatmap"}

Init ==
    /\ ScreenInit
    /\ call = NoCall
    /\ ret = NoRet

Next ==
    \/ RunEffects
    \/ Relaunch
    \/ startDrawingFarm
    \/ \E point \in TapPoints : onMapPress(point)
    \/ \E index \in DragIndices, point \in DragPoints : onDrawingPointDrag(index, point)
    \/ cancelDrawing
    \/ completeFarm
    \/ completePaddock
    \/ handleSavePaddock
    \/ handleCancelPaddock
    \/ \E mode \in BottomMenuModes : handleBottomMenuSelect(mode)
    \/ handleAddPaddock
    \/ dismissAlert

Spec == Init /\ [][Next]_vars

(***************************************************************************)
(* Specification of the screen with every handler.  ControlPanel shows     *)
(* Edit/Resize, Add Paddock and Clear All under 'farm-completed', a state  *)
(* that completeFarm no longer enters (it goes "directly" to paddock mode, *)
(* HomeScreen.tsx:280); here they are offered in the state that took its   *)
(* place.                                                                  *)
(***************************************************************************)
FarmCompleted == appState = "paddock-mode"

NextHandlers ==
    \/ Next
    \/ FarmCompleted /\ enterEditMode
    \/ FarmCompleted /\ startDrawingPaddock
    \/ FarmCompleted /\ clearAll
    \/ confirmClearAll
    \/ exitEditMode
    \/ \E index \in 1..MaxDragIndex, point \in DropPoints : onVertexDrag(index, point)

SpecHandlers == Init /\ [][NextHandlers]_vars

(***************************************************************************)
(* Properties of the geometry kernel                                       *)
(***************************************************************************)
Returned(f) == ret.done /\ call.fn = f

RingIndices(ring) == 1 .. Len(ring)

\* C1: isPaddockWithinFarm(paddockRing, farmRing) is true exactly when every
\* vertex of paddockRing satisfies isPointInPolygon against farmRing.
C1_PaddockIffEveryVertexInside ==
    Returned("isPaddockWithinFarm") =>
        (ret.bool <=> \A k \in RingIndices(call.ring) : isPointInPolygon(call.ring[k], call.farm))

\* a paddock with a vertex inside the farm and another outside it was rejected
C1_Witness ==
    /\ Returned("isPaddockWithinFarm")
    /\ ~ret.bool
    /\ \E k \in RingIndices(call.ring) : isPointInPolygon(call.ring[k], call.farm)
    /\ \E k \in RingIndices(call.ring) : ~isPointInPolygon(call.ring[k], call.farm)

RingXs(ring) == { ring[k][1] : k \in RingIndices(ring) }
RingYs(ring) == { ring[k][2] : k \in RingIndices(ring) }

IsAxisRect(ring) ==
    ring \in RectRings \cup { SpecSquare, createClosedPolygon(SpecSquare) }

StrictlyInsideBox(p, ring) ==
    /\ MinOf(RingXs(ring)) < p[1] /\ p[1] < MaxOf(RingXs(ring))
    /\ MinOf(RingYs(ring)) < p[2] /\ p[2] < MaxOf(RingYs(ring))

StrictlyOutsideBox(p, ring) ==
    \/ p[1] < MinOf(RingXs(ring)) \/ p[1] > MaxOf(RingXs(ring))
    \/ p[2] < MinOf(RingYs(ring)) \/ p[2] > MaxOf(RingYs(ring))

\* C2: for an axis-aligned rectangular ring, open or closed, isPointInPolygon
\* is true for every point strictly inside the rectangle and false for every
\* point strictly outside it; on the square (0,0),(0,10),(10,10),(10,0) it is
\* true for (5,5) and false for (15,5).
C2_EvenOddOnRectangles ==
    (Returned("isPointInPolygon") /\ IsAxisRect(call.ring)) =>
        /\ StrictlyInsideBox(call.point, call.ring) => ret.bool
        /\ StrictlyOutsideBox(call.point, call.ring) => ~ret.bool
        /\ (call.ring = SpecSquare /\ call.point = <<5, 5>>) => ret.bool
        /\ (call.ring = SpecSquare /\ call.point = <<15, 5>>) => ~ret.bool

\* the specification's square, given open, answered true for (5,5)
C2_Witness ==
    /\ Returned("isPointInPolygon")
    /\ call.ring = SpecSquare
    /\ call.point = <<5, 5>>
    /\ ret.bool

\* the point halfway between vertex k and the next vertex of an open ring,
\* when it has integer coordinates
HasIntegerMidpoint(a, b) == (a[1] + b[1]) % 2 = 0 /\ (a[2] + b[2]) % 2 = 0
Midpoint(a, b) == <<(a[1] + b[1]) \div 2, (a[2] + b[2]) \div 2>>
NextVertex(ring, k) == ring[(k % Len(ring)) + 1]

EdgeLeavesFarm(paddock, farm) ==
    \E k \in RingIndices(paddock) :
        /\ HasIntegerMidpoint(paddock[k], NextVertex(paddock, k))
        /\ ~isPointInPolygon(Midpoint(paddock[k], NextVertex(paddock, k)), farm)

AllVerticesInside(paddock, farm) ==
    \A k \in RingIndices(paddock) : isPointInPolygon(paddock[k], farm)

\* C4: a paddock whose vertices all lie inside the farm is accepted even when
\* one of its edges passes outside the farm between two vertices.
C4_VertexCheckOnly ==
    (/\ Returned("isPaddockWithinFarm")
     /\ AllVerticesInside(call.ring, call.farm)
     /\ EdgeLeavesFarm(call.ring, call.farm)) => ret.bool

\* the paddock spanning the notch of the U-shaped farm was accepted
C4_Witness ==
    /\ Returned("isPaddockWithinFarm")
    /\ call.farm = ConcaveFarm
    /\ call.ring = BulgingPaddock
    /\ AllVerticesInside(call.ring, call.farm)
    /\ EdgeLeavesFarm(call.ring, call.farm)
    /\ ret.bool

(***************************************************************************)
(* Properties of the ring helpers                                          *)
(***************************************************************************)
\* C14: createClosedPolygon applied to a list p0..pn returns p0..pn followed
\* by p0 (one entry longer, the last equal to the first, the argument as it
\* was); applied to its own result it appends p0 a second time, so it is not
\* idempotent.
C14_ClosingAppendsFirst ==
    Returned("createClosedPolygon") =>
        /\ Len(ret.seq) = Len(call.ring) + 1
        /\ SubSeq(ret.seq, 1, Len(call.ring)) = call.ring
        /\ ret.seq[Len(ret.seq)] = call.ring[1]
        /\ createClosedPolygon(ret.seq) = call.ring \o <<call.ring[1], call.ring[1]>>
        /\ createClosedPolygon(ret.seq) # ret.seq

\* the open list of the square's four corners was closed into five entries
C14_Witness ==
    /\ Returned("createClosedPolygon")
    /\ call.ring = SpecSquare
    /\ ret.seq = <<<<0, 0>>, <<0, 10>>, <<10, 10>>, <<10, 0>>, <<0, 0>>>>
    /\ Len(createClosedPolygon(ret.seq)) = 6

RECURSIVE SumOver(_, _)
\* the sum of one axis over all entries of a ring
SumOver(ring, axis) ==
    IF ring = <<>> THEN 0 ELSE Head(ring)[axis] + SumOver(Tail(ring), axis)

\* the fraction q is the mean s / n
IsMean(q, s, n) == q[2] > 0 /\ q[1] * n = s * q[2]

\* C15: getPolygonCentroid returns the arithmetic mean of all entries of the
\* ring, the duplicated closing vertex counted: (4,4) for the closed square
\* (0,0),(0,10),(10,10),(10,0),(0,0); for an empty ring it returns (0,0).
C15_MeanOfAllEntries ==
    Returned("getPolygonCentroid") =>
        /\ call.ring = <<>> => ret.seq = <<<<0, 1>>, <<0, 1>>>>
        /\ call.ring # <<>> =>
              /\ IsMean(ret.seq[1], SumOver(call.ring, 1), Len(call.ring))
              /\ IsMean(ret.seq[2], SumOver(call.ring, 2), Len(call.ring))
        /\ call.ring = createClosedPolygon(SpecSquare) => ret.seq = <<<<4, 1>>, <<4, 1>>>>

\* the closed square gave (4,4)
C15_Witness ==
    /\ Returned("getPolygonCentroid")
    /\ call.ring = createClosedPolygon(SpecSquare)
    /\ ret.seq = <<<<4, 1>>, <<4, 1>>>>

(***************************************************************************)
(* Properties of the initials                                              *)
(***************************************************************************)
IsLetter(c) == \E k \in 1..Len(UpperCase) : UpperCase[k] = c \/ LowerCase[k] = c

\* the positions where a word of the name starts with a letter
LetterStarts(name) ==
    { k \in 1..Len(name) :
         /\ name[k] \notin WhiteSpace
         /\ k = 1 \/ name[k - 1] \in WhiteSpace
         /\ IsLetter(name[k]) }

\* the n-th smallest member of a set of numbers
NthOf(S, n) == CHOOSE k \in S : Cardinality({ h \in S : h <= k }) = n

\* C16: getNameInitials returns the uppercased first characters of the
\* whitespace-separated words of the name, those that are letters only, in
\* order and joined by single spaces; names that are empty or all white space
\* give the empty string; "East Paddock" gives "E P" and "7 Field" gives "F".
C16_InitialsOfWords ==
    Returned("getNameInitials") =>
        LET starts == LetterStarts(call.name)
            n == Cardinality(starts)
        IN  /\ Len(ret.seq) = IF n = 0 THEN 0 ELSE 2 * n - 1
            /\ \A m \in 1..n : ret.seq[2 * m - 1] = toUpperCase(call.name[NthOf(starts, m)])
            /\ \A m \in 1..(n - 1) : ret.seq[2 * m] = " "
            /\ call.name = EastPaddock => ret.seq = <<"E", " ", "P">>
            /\ call.name = SevenField => ret.seq = <<"F">>

(***************************************************************************)
(* Properties of the heatmap generator                                     *)
(***************************************************************************)
HasFarm(polygons) == \E k \in 1..Len(polygons) : polygons[k].type = "farm"
HasPaddock(polygons) == \E k \in 1..Len(polygons) : polygons[k].type = "paddock"

FirstFarm(polygons) ==
    polygons[CHOOSE k \in 1..Len(polygons) :
                /\ polygons[k].type = "farm"
                /\ \A h \in 1..(k - 1) : polygons[h].type # "farm"]

\* some record gives a paddock of the collection a positive count
SomePaddockStocked(polygons, records) ==
    \E k \in 1..Len(polygons), h \in 1..Len(records) :
        /\ polygons[k].type = "paddock"
        /\ records[h].paddockId = polygons[k].id
        /\ records[h].count > 0

C5_EmptyWithoutFarmOrRecords ==
    (/\ Returned("generateHeatmapData")
     /\ (~HasFarm(call.polygons) \/ call.livestockData = <<>>)) => ret.seq = <<>>

\* C5 as amended: generateHeatmapData returns the empty sequence whenever the
\* collection has no farm-type feature or no paddock-type feature, whatever
\* the livestock records; an empty record list does not by itself empty the
\* result.
C5_EmptyWithoutFarmOrPaddock ==
    (/\ Returned("generateHeatmapData")
     /\ (~HasFarm(call.polygons) \/ ~HasPaddock(call.polygons))) => ret.seq = <<>>

\* paddocks and records for them but no farm: nothing was returned
C5_Witness ==
    /\ Returned("generateHeatmapData")
    /\ ~HasFarm(call.polygons)
    /\ SomePaddockStocked(call.polygons, call.livestockData)
    /\ ret.seq = <<>>

\* the positions of the records listed for an id
RecordsFor(records, id) ==
    { h \in 1..Len(records) : records[h].paddockId = id }

\* what a call of generateHeatmapData works with: the ring of the first farm,
\* its bounding box, the sample of grid index (i,j) (times gridSize) and
\* the paddocks of the collection in collection order
CallFarmRing == FirstFarm(call.polygons).ring
CallPaddocks == PaddockFeatures(call.polygons)

SampleOf(ring, i, j) ==
    <<gridSize * MinOf(RingXs(ring)) + i * (MaxOf(RingXs(ring)) - MinOf(RingXs(ring))),
      gridSize * MinOf(RingYs(ring)) + j * (MaxOf(RingYs(ring)) - MinOf(RingYs(ring)))>>

\* the count the generator reads for a paddock: that of the last record
\* listed for its id, 0 when there is none
CountOf(records, paddock) ==
    IF RecordsFor(records, paddock.id) = {} THEN 0
    ELSE records[MaxOf(RecordsFor(records, paddock.id))].count

Contains(paddock, sample) == isPointInPolygon(sample, ScaleRing(paddock.ring))
OnCentroid(paddock, sample) == AtCentroid(sample, getPolygonCentroid(paddock.ring))

\* no paddock with a positive count contains the sample or has its centroid
\* on it
NoInfluence(paddocks, records, sample) ==
    \A k \in 1..Len(paddocks) :
        CountOf(records, paddocks[k]) > 0 =>
            ~Contains(paddocks[k], sample) /\ ~OnCentroid(paddocks[k], sample)

\* C26: generateHeatmapData returns at most one point per pair of grid
\* indices (i, j) with 0 <= i, j <= 25, so at most 676 points, with ids
\* 'heatmap_i_j' that differ pairwise; the coordinate of every point is the
\* sample of its indices and isPointInPolygon holds of it and the first
\* farm's ring; every point has the category 'livestock-density'.
C26_OnePointPerAcceptedSample ==
    Returned("generateHeatmapData") =>
        /\ Len(ret.seq) <= (gridSize + 1) * (gridSize + 1)
        /\ \A k \in 1..Len(ret.seq) :
              LET point == ret.seq[k]
                  sample == SampleOf(CallFarmRing, point.id[2], point.id[3])
              IN  /\ point.id[1] = "heatmap"
                  /\ point.id[2] \in 0..gridSize
                  /\ point.id[3] \in 0..gridSize
                  /\ point.type = "livestock-density"
                  /\ point.coordinates = <<Quotient(sample[1], gridSize),
                                           Quotient(sample[2], gridSize)>>
                  /\ isPointInPolygon(sample, ScaleRing(CallFarmRing))
        /\ \A k, h \in 1..Len(ret.seq) : k # h => ret.seq[k].id # ret.seq[h].id

\* a run accepted some samples of the grid and left others out
C26_Witness ==
    /\ Returned("generateHeatmapData")
    /\ Len(ret.seq) > 0
    /\ Len(ret.seq) < (gridSize + 1) * (gridSize + 1)
    /\ \E k \in 1..Len(ret.seq) : ret.seq[k].id[2] > 0 /\ ret.seq[k].id[3] > 0

\* C11: every point returned by generateHeatmapData has an integer value in
\* [0,100], and a sample that receives no influence from any paddock has a
\* value in [0,5].
C11_ValuesInRange ==
    Returned("generateHeatmapData") =>
        \A k \in 1..Len(ret.seq) :
            /\ ret.seq[k].value \in 0..100
            /\ NoInfluence(CallPaddocks, call.livestockData,
                           SampleOf(CallFarmRing, ret.seq[k].id[2], ret.seq[k].id[3]))
                  => ret.seq[k].value \in 0..5

\* one run gave a sample without influence the value 5 and a sample inside a
\* stocked paddock the value 100
C11_Witness ==
    /\ Returned("generateHeatmapData")
    /\ \E k \in 1..Len(ret.seq) :
          /\ NoInfluence(CallPaddocks, call.livestockData,
                         SampleOf(CallFarmRing, ret.seq[k].id[2], ret.seq[k].id[3]))
          /\ ret.seq[k].value = 5
    /\ \E k \in 1..Len(ret.seq) :
          /\ ~NoInfluence(CallPaddocks, call.livestockData,
                          SampleOf(CallFarmRing, ret.seq[k].id[2], ret.seq[k].id[3]))
          /\ ret.seq[k].value = 100

\* the value of the sample of grid index (i,j) when its density is taken
\* from this paddock alone
ValueFrom(paddock, records, sample, i, j) ==
    LET inside == (paddockDensity(CountOf(records, paddock))
                     * (IF OnCentroid(paddock, sample) THEN 10 ELSE 7)) \div 10
                  + variation(i, j)
    IN  (Max2(0, Min2(1000000, inside + grazingPattern(i, j))) + 5000) \div 10000

Stocked(paddock, records) == CountOf(records, paddock) > 0

\* the first position in `paddocks` of a paddock that contains the sample
FirstContaining(paddocks, sample) ==
    CHOOSE k \in 1..Len(paddocks) :
        /\ Contains(paddocks[k], sample)
        /\ \A h \in 1..(k - 1) : ~Contains(paddocks[h], sample)

\* the first position of a paddock with a positive count that contains it
FirstStockedContaining(paddocks, records, sample) ==
    CHOOSE k \in 1..Len(paddocks) :
        /\ Stocked(paddocks[k], records) /\ Contains(paddocks[k], sample)
        /\ \A h \in 1..(k - 1) :
              ~(Stocked(paddocks[h], records) /\ Contains(paddocks[h], sample))

PointSample(p) == SampleOf(CallFarmRing, p.id[2], p.id[3])

\* C12 as stated: a sample inside some paddock takes its density from the
\* first paddock in collection order that contains it and from no other,
\* whatever the livestock count of that paddock.
C12_FirstContainingPaddock ==
    Returned("generateHeatmapData") =>
        \A k \in 1..Len(ret.seq) :
            (\E h \in 1..Len(CallPaddocks) : Contains(CallPaddocks[h], PointSample(ret.seq[k])))
            => ret.seq[k].value =
                  ValueFrom(CallPaddocks[FirstContaining(CallPaddocks, PointSample(ret.seq[k]))],
                            call.livestockData, PointSample(ret.seq[k]),
                            ret.seq[k].id[2], ret.seq[k].id[3])

\* C12 as amended: a sample inside some paddock whose record has a positive
\* count takes its density from the first such paddock in collection order
\* and from no other; paddocks without a record or with count 0 are passed
\* over even when they contain the sample.
C12_FirstStockedContainingPaddock ==
    Returned("generateHeatmapData") =>
        \A k \in 1..Len(ret.seq) :
            (\E h \in 1..Len(CallPaddocks) :
                /\ Stocked(CallPaddocks[h], call.livestockData)
                /\ Contains(CallPaddocks[h], PointSample(ret.seq[k])))
            => ret.seq[k].value =
                  ValueFrom(CallPaddocks[FirstStockedContaining(CallPaddocks, call.livestockData,
                                                                PointSample(ret.seq[k]))],
                            call.livestockData, PointSample(ret.seq[k]),
                            ret.seq[k].id[2], ret.seq[k].id[3])

\* a sample inside two stocked paddocks has the value the first one gives,
\* which is not the value the second one would give
C12_Witness ==
    /\ Returned("generateHeatmapData")
    /\ Len(CallPaddocks) = 2
    /\ \E k \in 1..Len(ret.seq) :
          LET sample == PointSample(ret.seq[k])
              first == ValueFrom(CallPaddocks[1], call.livestockData, sample,
                                 ret.seq[k].id[2], ret.seq[k].id[3])
              second == ValueFrom(CallPaddocks[2], call.livestockData, sample,
                                  ret.seq[k].id[2], ret.seq[k].id[3])
          IN  /\ Contains(CallPaddocks[1], sample) /\ Contains(CallPaddocks[2], sample)
              /\ Stocked(CallPaddocks[1], call.livestockData)
              /\ Stocked(CallPaddocks[2], call.livestockData)
              /\ first # second
              /\ ret.seq[k].value = first

\* the grid indices whose sample is inside the ring
GridIndices(ring) ==
    { ij \in (0..gridSize) \X (0..gridSize) :
         isPointInPolygon(SampleOf(ring, ij[1], ij[2]), ScaleRing(ring)) }

\* C13: when the collection holds several farms, the grid points emitted by
\* generateHeatmapData are those of the first farm in collection order: the
\* samples of its bounding box that lie inside its ring, whatever the later
\* farms are.
C13_FirstFarmOnly ==
    (Returned("generateHeatmapData") /\ HasFarm(call.polygons) /\ HasPaddock(call.polygons)) =>
        IF Len(CallFarmRing) = 0 THEN ret.seq = <<>>
        ELSE /\ { <<ret.seq[k].id[2], ret.seq[k].id[3]>> : k \in 1..Len(ret.seq) }
                   = GridIndices(CallFarmRing)
             /\ \A k \in 1..Len(ret.seq) :
                   ret.seq[k].coordinates =
                      <<Quotient(PointSample(ret.seq[k])[1], gridSize),
                        Quotient(PointSample(ret.seq[k])[2], gridSize)>>

\* two farms with different rings: the points are those of the first farm,
\* and the second farm alone would have given other points
C13_Witness ==
    /\ Returned("generateHeatmapData")
    /\ Len(getFarmBoundaries(call.polygons)) = 2
    /\ HasPaddock(call.polygons)
    /\ ret.seq # <<>>
    /\ { <<ret.seq[k].id[2], ret.seq[k].id[3]>> : k \in 1..Len(ret.seq) }
          = GridIndices(getFarmBoundaries(call.polygons)[1].ring)
    /\ { ret.seq[k].coordinates : k \in 1..Len(ret.seq) }
          # { <<Quotient(SampleOf(getFarmBoundaries(call.polygons)[2].ring, ij[1], ij[2])[1], gridSize),
                Quotient(SampleOf(getFarmBoundaries(call.polygons)[2].ring, ij[1], ij[2])[2], gridSize)>> :
                 ij \in GridIndices(getFarmBoundaries(call.polygons)[2].ring) }

\* two results of generateHeatmapData that agree in everything but the
\* values of the samples without influence, which are both in 0..5
SameButBackground(a, b) ==
    /\ Len(a) = Len(b)
    /\ \A k \in 1..Len(a) :
          /\ a[k].id = b[k].id
          /\ a[k].coordinates = b[k].coordinates
          /\ a[k].type = b[k].type
          /\ \/ a[k].value = b[k].value
             \/ /\ NoInfluence(CallPaddocks, call.livestockData, PointSample(a[k]))
                /\ a[k].value \in 0..5
                /\ b[k].value \in 0..5

\* C17 as stated: every core operation called a second time with the same
\* arguments returns a result equal to the first, and leaves its arguments
\* as they were.
C17_RepeatedCallsEqual ==
    [][CallAgain => (/\ call' = call
                     /\ ret'.bool = ret.bool
                     /\ ret'.seq = ret.seq)]_vars

\* C17 as amended: no core operation modifies its arguments, and every one
\* but generateHeatmapData returns equal results for equal arguments; two
\* calls of generateHeatmapData return the same points (ids, coordinates,
\* types) with equal values for the samples that a paddock influences, while
\* the values of the samples without influence are drawn anew in 0..5.
C17_RepeatedCallsEqualButBackground ==
    [][CallAgain => (/\ call' = call
                     /\ ret'.bool = ret.bool
                     /\ IF call.fn = "generateHeatmapData"
                        THEN SameButBackground(ret.seq, ret'.seq)
                        ELSE ret'.seq = ret.seq)]_vars

\* generateHeatmapData has been called twice on a collection with samples
\* inside a stocked paddock and samples without influence, and another
\* outcome of Math.random() would have given another result
C17_Witness ==
    /\ Returned("generateHeatmapData")
    /\ ret.again
    /\ \E k \in 1..Len(ret.seq) :
          NoInfluence(CallPaddocks, call.livestockData, PointSample(ret.seq[k]))
    /\ \E k \in 1..Len(ret.seq) :
          ~NoInfluence(CallPaddocks, call.livestockData, PointSample(ret.seq[k]))
    /\ \E t \in NoiseTapes :
          generateHeatmapData(call.polygons, call.livestockData, t) # ret.seq

(***************************************************************************)
(* Properties of the annotation layer                                      *)
(***************************************************************************)
\* positions of the paddock features in a collection, in collection order
PaddockPositions(polygons) == { k \in 1..Len(polygons) : polygons[k].type = "paddock" }

\* the position in the collection of the n-th paddock feature
NthPaddock(polygons, n) ==
    CHOOSE k \in PaddockPositions(polygons) :
        Cardinality({ h \in PaddockPositions(polygons) : h <= k }) = n

\* C8: createLivestockAnnotations returns exactly one annotation per paddock
\* feature, in collection order; each carries the count, type and status of
\* the record whose paddockId is the paddock's id (the last one listed when
\* several are), or count 0, type cattle, status healthy when there is none;
\* farm features yield no annotation.
C8_OneAnnotationPerPaddock ==
    Returned("createLivestockAnnotations") =>
        /\ Len(ret.seq) = Cardinality(PaddockPositions(call.polygons))
        /\ \A n \in 1..Len(ret.seq) :
              LET paddock == call.polygons[NthPaddock(call.polygons, n)]
                  hits == RecordsFor(call.livestockData, paddock.id)
                  a == ret.seq[n]
              IN  /\ a.paddockId = paddock.id
                  /\ a.id = <<"livestock", paddock.id>>
                  /\ IF hits = {}
                     THEN a.count = 0 /\ a.type = "cattle" /\ a.status = "healthy"
                     ELSE /\ a.count = call.livestockData[MaxOf(hits)].count
                          /\ a.type = call.livestockData[MaxOf(hits)].type
                          /\ a.status = call.livestockData[MaxOf(hits)].status

\* a farm and two paddocks, one with a record and one without: two
\* annotations, the second the zero-count default
C8_Witness ==
    /\ Returned("createLivestockAnnotations")
    /\ HasFarm(call.polygons)
    /\ Len(ret.seq) = 2
    /\ RecordsFor(call.livestockData, ret.seq[1].paddockId) # {}
    /\ ret.seq[1].count > 0
    /\ RecordsFor(call.livestockData, ret.seq[2].paddockId) = {}
    /\ ret.seq[2].count = 0

\* C9: generateMockLivestockData returns exactly one record per paddock
\* feature and none for farms, each with the paddock's id, a count within
\* [20,620], a type in {cattle, sheep} and a status in {healthy, attention,
\* breeding, medication}, whatever the random source returns.
C9_MockRecordPerPaddock ==
    Returned("generateMockLivestockData") =>
        /\ Len(ret.seq) = Cardinality(PaddockPositions(call.polygons))
        /\ \A n \in 1..Len(ret.seq) :
              /\ ret.seq[n].paddockId = call.polygons[NthPaddock(call.polygons, n)].id
              /\ ret.seq[n].count \in 20..620
              /\ ret.seq[n].type \in {"cattle", "sheep"}
              /\ ret.seq[n].status \in {"healthy", "attention", "breeding", "medication"}

\* a farm and a paddock gave one record, drawn with the largest outcome of
\* the random source
C9_Witness ==
    /\ Returned("generateMockLivestockData")
    /\ HasFarm(call.polygons)
    /\ Len(ret.seq) = 1
    /\ ret.seq[1].count = randomCount(RandDen - 1)
    /\ ret.seq[1].type = "sheep"
    /\ ret.seq[1].status = "medication"

\* C10: every integer from 20 through 620, both endpoints included, is a
\* possible count of a generated record.
C10_EveryCountPossible ==
    (/\ call.fn = "generateMockLivestockData"
     /\ ~ret.done
     /\ Len(PaddockFeatures(call.polygons)) = 1) =>
        \A c \in 20..620 :
            ENABLED (CallGenerateMockLivestockData /\ ret'.seq[1].count = c)

(***************************************************************************)
(* Properties of the screen                                                *)
(***************************************************************************)
SelectedFarmRing == FindFeature(completedPolygons, selectedFarmId).ring

\* every vertex of the paddock's ring is inside the ring of its parent farm
InsideParentFarm(paddock) ==
    /\ HasFeature(completedPolygons, paddock.parentId)
    /\ \A v \in 1..Len(paddock.ring) :
          isPointInPolygon(paddock.ring[v],
                           FindFeature(completedPolygons, paddock.parentId).ring)

C7_RejectedPaddockChangesNothing ==
    [][(/\ completePaddock
        /\ Len(currentPolygon) >= 3
        /\ HasFeature(completedPolygons, selectedFarmId)
        /\ \E v \in 1..Len(currentPolygon) :
              ~isPointInPolygon(currentPolygon[v], SelectedFarmRing))
       => (/\ completedPolygons' = completedPolygons
           /\ ~showPaddockModal'
           /\ appState' = appState
           /\ currentPolygon' = currentPolygon)]_vars

\* a drawing of three points, one outside the farm, has just been rejected
C7_Witness ==
    /\ alert = "Invalid Paddock"
    /\ appState = "drawing-paddock"
    /\ Len(currentPolygon) >= 3
    /\ HasFeature(completedPolygons, selectedFarmId)
    /\ \E v \in 1..Len(currentPolygon) :
          ~isPointInPolygon(currentPolygon[v], SelectedFarmRing)
    /\ \E v \in 1..Len(currentPolygon) :
          isPointInPolygon(currentPolygon[v], SelectedFarmRing)
    /\ ~showPaddockModal
    /\ PaddockFeatures(completedPolygons) = <<>>

\* the records hold one for every paddock of the collection
RecordsCover(polygons, records) ==
    \A k \in 1..Len(polygons) :
        IsPaddock(polygons[k]) => MapHas(records, polygons[k].id)

\* C18: in every pass of the effects in which the screen calls
\* createLivestockAnnotations or generateHeatmapData, the livestock records
\* it passes hold a record for every paddock of the collection it passes.
C18_CallsSeeEveryPaddockStocked ==
    [][(RunEffects /\ (AnnotationEffectCalls \/ HeatmapEffectCalls))
       => RecordsCover(completedPolygons, livestockData)]_vars

\* C19: once the effects have settled, livestockData holds exactly one
\* record for each paddock feature of completedPolygons and no record for
\* any other id; it is empty when the collection has no paddock.
C19_SettledRecordsMatchPaddocks ==
    Idle =>
        /\ \A k \in 1..Len(completedPolygons) :
              IsPaddock(completedPolygons[k]) =>
                 Cardinality({ h \in 1..Len(livestockData) :
                                 livestockData[h].paddockId = completedPolygons[k].id }) = 1
        /\ \A h \in 1..Len(livestockData) :
              \E k \in 1..Len(completedPolygons) :
                 /\ IsPaddock(completedPolygons[k])
                 /\ completedPolygons[k].id = livestockData[h].paddockId
        /\ (PaddockFeatures(completedPolygons) = <<>> => livestockData = <<>>)

\* the effects have settled after a second paddock was saved: two paddocks,
\* two records
C19_Witness ==
    /\ Idle
    /\ Len(PaddockFeatures(completedPolygons)) = 2
    /\ Len(livestockData) = 2
    /\ livestockData[1].paddockId # livestockData[2].paddockId

\* a step taken by one of the screen's controls: handlers run when no effect
\* is pending, and only a relaunch leaves the mount effects pending
ControlStep == Idle /\ "mount" \notin dirty'

MenuStates == {"paddock-mode", "livestock-mode", "heatmap-mode"}

\* the documented machine
DocumentedMove(from, to) ==
    \/ from = "initial" /\ to = "drawing-farm"
    \/ from = "drawing-farm" /\ to = "paddock-mode" /\ Len(currentPolygon) >= 3
    \/ from = "drawing-farm" /\ to = "initial"
    \/ from \in MenuStates /\ to \in MenuStates /\ to = MenuState(bottomMenuMode')
    \/ from = "paddock-mode" /\ to = "drawing-paddock"
    \/ from = "drawing-paddock" /\ to = "paddock-mode"
    \/ from = "editing" /\ to = "paddock-mode"

\* C20: a step of a control the screen offers changes appState only along
\* the documented machine (initial -> drawing-farm; drawing-farm ->
\* paddock-mode with at least three points, or back to initial; the three
\* menu states among themselves by the bottom menu; paddock-mode ->
\* drawing-paddock and back; editing -> paddock-mode), and no step at all
\* enters 'farm-completed'.
C20_DocumentedMachine ==
    [][/\ (ControlStep /\ appState' # appState) => DocumentedMove(appState, appState')
       /\ appState' # "farm-completed"]_vars

\* the machine has been walked from the initial state through the farm and a
\* saved paddock to a menu state other than the one the farm ends in
C20_Witness ==
    /\ Idle
    /\ appState = "heatmap-mode"
    /\ Len(getFarmBoundaries(completedPolygons)) = 1
    /\ Len(PaddockFeatures(completedPolygons)) >= 1

\* the rendered controls never lead into the edit mode
EditingNeverEntered == appState # "editing" /\ ~isEditMode

\* C21: once a farm has been drawn and completed, the rendered controls
\* offer a step into appState 'editing' (the Edit button of the control
\* panel).
C21_EditOfferedOnceFarmDrawn ==
    (/\ Interactive
     /\ appState = "paddock-mode"
     /\ Len(getFarmBoundaries(completedPolygons)) > 0)
       => ENABLED (Next /\ appState' = "editing")

\* the four persisted values as the screen holds them
ScreenValues ==
    [completedPolygons |-> completedPolygons,
     selectedFarmId |-> selectedFarmId,
     appState |-> appState,
     bottomMenuMode |-> bottomMenuMode]

\* C22: once the auto-save effects have run, loadAllData() returns the
\* screen's completedPolygons, selectedFarmId, appState and bottomMenuMode
\* (after Clear All: the empty collection, no farm id, 'initial'), and the
\* effects pass of a mount puts into the screen exactly what loadAllData()
\* returns, so a restart restores those four values.
C22_AutoSaveCoversAllChanges ==
    /\ [](Idle => loadAllData(storage) = ScreenValues)
    /\ [][Mounting => ScreenValues' = loadAllData(storage)]_vars

\* everything was cleared after a farm had been created, and the effects
\* have settled
C22_Witness ==
    /\ Idle
    /\ clock >= 1
    /\ completedPolygons = <<>>
    /\ appState = "initial"
    /\ storage.appState = "initial"
    /\ storage.completedPolygons = Undefined

ClosedRing(ring) == Len(ring) >= 4 /\ ring[1] = ring[Len(ring)]

\* C23: in every reachable state every ring stored in completedPolygons has
\* at least four entries and its first entry equals its last, whatever
\* completeFarm, handleSavePaddock and onVertexDrag (the first vertex
\* included) did before.
C23_StoredRingsClosed ==
    \A k \in 1..Len(completedPolygons) : ClosedRing(completedPolygons[k].ring)

\* the first vertex of the farm was dragged to the spot outside, and a
\* paddock is stored as well
C23_Witness ==
    /\ Len(completedPolygons) >= 2
    /\ IsFarm(completedPolygons[1])
    /\ completedPolygons[1].ring[1] \in DropPoints
    /\ ClosedRing(completedPolygons[1].ring)
    /\ IsPaddock(completedPolygons[2])

\* C24: completeFarm taken with fewer than three drawn points adds no
\* feature and leaves appState, currentPolygon, completedPolygons,
\* selectedFarmId and bottomMenuMode as they were; completePaddock taken
\* with fewer than three points changes none of them either and does not
\* open the paddock modal.
C24_TooFewPointsChangesNothing ==
    [][((completeFarm \/ completePaddock) /\ Len(currentPolygon) < 3)
       => (/\ appState' = appState
           /\ currentPolygon' = currentPolygon
           /\ completedPolygons' = completedPolygons
           /\ selectedFarmId' = selectedFarmId
           /\ bottomMenuMode' = bottomMenuMode
           /\ ~showPaddockModal')]_vars

\* Complete Paddock was pressed with one or two points drawn: the error
\* dialog is up and the points are still there
C24_Witness ==
    /\ alert = "Error"
    /\ appState = "drawing-paddock"
    /\ Len(currentPolygon) \in 1..2
    /\ ~showPaddockModal
    /\ Len(completedPolygons) = 1

\* C25: once the effects have settled, livestockAnnotations holds exactly
\* one annotation per paddock feature of completedPolygons, in their order,
\* each with the count, type and status of that paddock's record in
\* livestockData; there is none for a paddock that is gone and none is
\* missing for a new one.
C25_SettledAnnotationsMatchRecords ==
    Idle =>
       LET paddocks == PaddockFeatures(completedPolygons)
       IN  /\ Len(livestockAnnotations) = Len(paddocks)
           /\ \A k \in 1..Len(paddocks) :
                 /\ livestockAnnotations[k].paddockId = paddocks[k].id
                 /\ MapHas(livestockData, paddocks[k].id)
                 /\ LET record == MapGet(livestockData, paddocks[k].id)
                    IN  /\ livestockAnnotations[k].count = record.count
                        /\ livestockAnnotations[k].type = record.type
                        /\ livestockAnnotations[k].status = record.status

\* two paddocks, the newer one stocked with the greatest count, and an
\* annotation for each
C25_Witness ==
    /\ Idle
    /\ Len(PaddockFeatures(completedPolygons)) = 2
    /\ Len(livestockAnnotations) = 2
    /\ livestockAnnotations[2].count = 619
    /\ livestockAnnotations[1].count = 20

PersistedNames == {"completedPolygons", "selectedFarmId", "appState", "bottomMenuMode"}

\* C27: the effects pass of a mount puts into the screen what the store held
\* before the auto-save effects of that pass wrote the initial values, and
\* leaves the stored polygons alone; afterwards the store differs from the
\* screen only in values whose auto-save effect is still pending, so once
\* the effects have settled screen and store both hold the persisted
\* polygons, selectedFarmId, appState and bottomMenuMode.
C27_MountLosesNothing ==
    /\ [][Mounting => (/\ ScreenValues' = loadAllData(storage)
                       /\ loadCompletedPolygons(storage') = loadCompletedPolygons(storage))]_vars
    /\ [](~Mounting =>
            \A name \in PersistedNames :
                name \notin dirty => loadAllData(storage)[name] = ScreenValues[name])

\* the mount pass has just run over persisted data: the screen holds the
\* restored farm, paddock mode and menu mode while the store holds the
\* initial values the same pass wrote
C27_Witness ==
    /\ appState = "paddock-mode"
    /\ Len(getFarmBoundaries(completedPolygons)) = 1
    /\ selectedFarmId # NoId
    /\ storage.appState = "initial"
    /\ storage.selectedFarmId = Undefined
    /\ storage.completedPolygons # Undefined
    /\ {"appState", "selectedFarmId", "completedPolygons"} \subseteq dirty

\* C28: completedPolygons never holds more than one farm feature; appState
\* is 'initial' only while it holds none; 'drawing-farm' is entered from
\* 'initial' only; and whenever a farm exists selectedFarmId is its id.
C28_AtMostOneFarm ==
    /\ [](/\ Len(getFarmBoundaries(completedPolygons)) <= 1
          /\ appState = "initial" => Len(getFarmBoundaries(completedPolygons)) = 0
          /\ \A k \in 1..Len(completedPolygons) :
                IsFarm(completedPolygons[k]) => selectedFarmId = completedPolygons[k].id)
    /\ [][appState' = "drawing-farm" => appState \in {"initial", "drawing-farm"}]_vars

\* a farm and a paddock are stored, the farm is the selected one, and a
\* further feature could still be created
C28_Witness ==
    /\ Idle
    /\ Len(getFarmBoundaries(completedPolygons)) = 1
    /\ selectedFarmId = getFarmBoundaries(completedPolygons)[1].id
    /\ Len(PaddockFeatures(completedPolygons)) = 1
    /\ clock < MaxClock

\* C29: whenever appState is neither 'drawing-farm' nor 'drawing-paddock',
\* currentPolygon is empty, and a step adds a point to currentPolygon only
\* in one of those two states.
C29_NoPointsOutsideDrawing ==
    /\ [](appState \notin {"drawing-farm", "drawing-paddock"} => currentPolygon = <<>>)
    /\ [][Len(currentPolygon') > Len(currentPolygon)
            => appState \in {"drawing-farm", "drawing-paddock"}]_vars

\* the outline of a farm has just been cancelled: the screen is back in
\* 'initial' with no point, the store still says 'drawing-farm'
C29_Witness ==
    /\ appState = "initial"
    /\ currentPolygon = <<>>
    /\ storage.appState = "drawing-farm"
    /\ dirty = {"appState"}

\* C30: in every reachable state, those restored from the store included,
\* drawingMode is 'paddock' whenever appState is 'drawing-paddock' and 'farm'
\* whenever it is 'drawing-farm', and isEditMode is true exactly when
\* appState is 'editing'.
C30_ModeFlagsAgree ==
    /\ appState = "drawing-paddock" => drawingMode = "paddock"
    /\ appState = "drawing-farm" => drawingMode = "farm"
    /\ isEditMode <=> appState = "editing"

====
